---- MODULE Spec2Model ----
(***************************************************************************)
(* A model of the crawler, the scrape endpoints and the in-memory cache of *)
(* the chatbot backend.                                                    *)
(*                                                                         *)
(*   backend/app/services/lightweight_crawler.py   LightweightCrawler      *)
(*   backend/app/routes/scrape.py                  the two scrape routes   *)
(*   backend/app/services/cache_service.py         CacheService            *)
(*                                                                         *)
(* URLs are numbers.  The web site is the environment: it is fixed for a   *)
(* whole behaviour, and the model learns the links of a page the first     *)
(* time the page is served.  A fetch may fail at any time (timeout,        *)
(* non-200 status, non-HTML content, exception).                           *)
(***************************************************************************)
EXTENDS Integers, Sequences, FiniteSets, TLC

\* ------------------------------------------------------------------ bounds

\* Pages of the crawled host, numbered 1..NumPages.
NumPages == 4
\* max_pages ranges over 1..MaxPages and 10.
MaxPages == 2
\* max_depth ranges over 0..MaxDepth.
MaxDepth == 1
\* max_concurrent, when assigned, ranges over 1..MaxConcurrent.
MaxConcurrent == 2
\* Invocations of the crawler on the module-level instance.
MaxCrawls == 2
\* Further URLs of the crawled host that the seed page of the wide site
\* links to.
NumExtra == 3
\* Requests served by the scrape routes.
MaxRequests == 3
\* Cache keys 1..NumKeys and values 1..NumValues.
NumKeys == 3
NumValues == 2
\* max_size ranges over 1..MaxCacheSize, ttl over 1..MaxTtl.
MaxCacheSize == 2
MaxTtl == 1
\* The clock runs from 0 to MaxTime.
MaxTime == 2

\* A mutable value has the contents 0..MaxContent.
MaxContent == 1
\* Ingested URLs 1..NumUrls, document texts 1..NumDocs, query texts
\* 1..NumQueries, n_results 1..MaxK.
NumUrls == 2
NumDocs == 2
NumQueries == 2
MaxK == 2
\* chat_query calls that wait for the LLM at the same time.
MaxPending == 1
\* The same, where requests run concurrently.
MaxInFlight == 2
\* Conversation ids 1..NumConversations, queries 1..NumExchanges, and at
\* most MaxStores store_conversation_context calls per conversation.
NumConversations == 2
NumExchanges == 2
MaxStores == 6
\* scrape_website goes through a fixed list of urls under base_url: 9 in
\* the code, scaled down; max_pages goes up to one more.
NumScraperUrls == 3
MaxScrapePages == 4
\* The memo of similarity_search is cut to its last MemoKeep entries when
\* it has more than MaxMemoSize: 100 and 50 in the code, scaled down.
MaxMemoSize == 3
MemoKeep == 2
\* [0.0] * 384
EmbeddingDim == 384

\* ---------------------------------------------------------------- the web

SameUrls == 1..NumPages
SeedUrl == 1
\* A link to another host, found on every page.
CrossUrl == NumPages + 1
\* A link to a static asset (.pdf) of the crawled host, found on every page.
AssetUrl == NumPages + 2
\* A URL of a host that never answers with an HTML page.
DeadUrl == NumPages + 3

\* urlparse(url).netloc
Netloc(url) ==
    IF url = CrossUrl THEN "other.example"
    ELSE IF url = DeadUrl THEN "dead.example"
    ELSE "site.example"

\* The <a href> targets in the HTML of `url`, where links are the links of
\* the page to other pages of its host: every page also links to itself,
\* to another host and to a static asset.
Hrefs(url, links) == links \cup {url, CrossUrl, AssetUrl}

\* ------------------------------------------------------------------ state

VARIABLES
    \* LightweightCrawler fields
    max_pages,        \* self.max_pages
    max_depth,        \* self.max_depth
    max_concurrent,   \* self.max_concurrent: {} while the attribute is not
                      \* set (__init__ does not set it), {n} once assigned
    visited_urls,     \* self.visited_urls
    session,          \* self.session: "none", "open" or "closed"
    \* locals of the running crawl_with_discovery
    pc,               \* "idle" (no invocation runs), "loop" (at the while
                      \* test), "gather" (a wave is in flight)
    start_url,
    queue,            \* deque of [url, depth]
    results,          \* URLs of the result records, in order
    wave,             \* the tasks of asyncio.gather: [url, depth, st]
    \* the environment and the history
    site,             \* links of the pages served so far
    fetch_count,      \* GET requests sent per URL in this invocation
    failed_urls,      \* URLs a fetch of which failed in this invocation
    ok_count,         \* fetches that gave a page in this invocation
    returned,         \* what each finished invocation gave its caller
    suspended,        \* the invocation that waits at an await while
                      \* another one runs: <<>>, or <<its locals, with the
                      \* visited set and the session it last saw>>
    outer,            \* whether a caller is inside its own
                      \* 'async with' block on the crawler
    lost,             \* sessions that __aenter__ replaced in self.session
                      \* while they were open: nothing refers to them
    \* the scrape routes
    responses,        \* the responses sent so far
    \* CacheService fields
    cache,            \* self.cache: the entries [key, data, timestamp] in
                      \* the order of the dict
    max_size,         \* self.max_size
    ttl,              \* self.ttl
    \* the clock and the history of the cache
    now,              \* time.time()
    ret,              \* what the last call returned: <<v>> for a value v
                      \* of get, <<>> for None
    evicted,          \* the timestamp of the entry the last call removed for capacity
    \* the caller's objects
    heap,             \* the content of each object handed to set; an entry's
                      \* data is the object itself, not its content
    \* VectorStoreService fields
    embedding_model,  \* self.embedding_model: "loaded" or "none"
    collection,       \* the records of the collection, by id
    memo,             \* self.cache: the entries [key, results] in the order
                      \* of the dict, each with the time `at` it was written
    max_cache_size,   \* self.max_cache_size
    \* the history of the vector store
    found,            \* the last call and what it gave its caller
    \* settings of the LLM service
    together_key,     \* whether settings.TOGETHER_API_KEY is set: not
                      \* empty once stripped
    openrouter_key,   \* whether settings.OPENROUTER_API_KEY is set
    blank_keys,       \* the providers whose key is of whitespace only:
                      \* not empty, and empty once stripped
    \* the chat route
    pending,          \* the chat_query calls waiting at
                      \* await llm_service.generate_response(...)
    \* the history of the chat route
    reply,            \* the response the last step sent, with its request,
                      \* the providers tried, the prompt built and the
                      \* request whose cache entry it replaced: <<>> when
                      \* the step sent none
    stored_by,        \* per key of the cache, the request whose response
                      \* is stored under it
    \* ConversationService fields
    conversation_memory,  \* self.conversation_memory: the exchanges kept
                      \* per conversation id
    \* the history of the conversation service
    exchanges,        \* per conversation id, every exchange ever stored
    \* OptimizedScraperService fields
    scraped_urls,     \* self.scraped_urls
    \* the history of the scraper
    scrape,           \* the last scrape_website call: <<>>, or its
                      \* max_pages, scraped_urls as it found it, the urls
                      \* it sent a GET to, those whose fetch failed, and
                      \* the urls of the records it returned
    fetched_ok        \* the urls fetched with success since the last
                      \* clear_cache

crawlerVars ==
    <<max_pages, max_depth, max_concurrent, visited_urls, session, pc,
      start_url, queue, results, wave, site, fetch_count, failed_urls,
      ok_count, returned, suspended, outer, lost>>

cacheVars == <<cache, max_size, ttl, now, ret, evicted, heap>>

indexVars == <<embedding_model, collection, memo, max_cache_size, found>>

chatVars ==
    <<together_key, openrouter_key, blank_keys, pending, reply, stored_by>>

memoryVars == <<conversation_memory, exchanges>>

scraperVars == <<scraped_urls, scrape, fetched_ok>>

vars == <<crawlerVars, responses, cacheVars, indexVars, chatVars, memoryVars, scraperVars>>

\* ---------------------------------------------------------------- helpers

Min(a, b) == IF a <= b THEN a ELSE b

Range(s) == {s[i] : i \in DOMAIN s}

\* The sequences that list every element of S once: the orders in which
\* list(set(links)) may come out.
Perms(S) ==
    {f \in [1..Cardinality(S) -> S] :
        \A i, j \in 1..Cardinality(S) : i # j => f[i] # f[j]}

Take(s, n) == SubSeq(s, 1, Min(n, Len(s)))

\* ---------------------------------------------------------------- crawler

\* ignore_patterns, matched against the cleaned URL
ShouldIgnoreUrl(url) == url = AssetUrl

\* A link filter that lets every host through.
IsSameDomainAnyHost(url, base_domain) == TRUE

IsSameDomain(url, base_domain) == Netloc(url) = base_domain

\* _extract_links: the cleaned hrefs that are not ignored and are on the
\* host of the page (base_url), without duplicates.
ExtractLinks(hrefs, base_url) ==
    {h \in hrefs : ~ShouldIgnoreUrl(h) /\ IsSameDomain(h, Netloc(base_url))}

\* result.get('links', [])[:5]
LinkLimit == 5

\* The frontier entries one processed page adds, for one order of its
\* links: the first LinkLimit links, those not yet visited, at depth 1.
LinkDepth == 1

\* The entries of all the unvisited links of a page.
NewEntriesAll(order, visited) ==
    LET keep(l) == l \notin visited
    IN  [i \in 1..Len(SelectSeq(order, keep)) |->
            [url |-> SelectSeq(order, keep)[i], depth |-> LinkDepth]]

NewEntries(order, visited) ==
    LET first == Take(order, LinkLimit)
        keep(l) == l \notin visited
    IN  [i \in 1..Len(SelectSeq(first, keep)) |->
            [url |-> SelectSeq(first, keep)[i], depth |-> LinkDepth]]

\* The links of a served page.
PageLinks(url) == ExtractLinks(Hrefs(url, site[url]), url)

\* The frontiers that processing the tasks w in order may leave, from
\* frontier q.
RECURSIVE Enqueued(_, _, _)
Enqueued(w, q, visited) ==
    IF w = <<>> THEN {q}
    ELSE IF Head(w).st = "ok"
         THEN UNION {Enqueued(Tail(w), q \o NewEntries(p, visited), visited) :
                        p \in Perms(PageLinks(Head(w).url))}
         ELSE Enqueued(Tail(w), q, visited)

\* The URLs of the records the tasks w add to results.
RECURSIVE Records(_)
Records(w) ==
    IF w = <<>> THEN <<>>
    ELSE (IF Head(w).st = "ok" THEN <<Head(w).url>> ELSE <<>>) \o Records(Tail(w))

\* The entries popped for one wave and the batch kept of them.
Popped(n) == SubSeq(queue, 1, Min(n, Len(queue)))

\* A batch filter that does not look at the depth.
EligibleAnyDepth(e) == e.url \notin visited_urls

Eligible(e) == e.depth <= max_depth /\ e.url \notin visited_urls

CurrentBatch(n) == SelectSeq(Popped(n), Eligible)

\* _fetch_single_url up to its first await: a visited URL gives None at
\* once, any other is requested.
FetchBegin(e) ==
    [url |-> e.url, depth |-> e.depth,
     st |-> IF e.url \in visited_urls THEN "none" ELSE "inflight"]

\* __aenter__: self.session = aiohttp.ClientSession(...). The session that
\* the field held is dropped; it is lost when it was open.
LostByEnter == IF session = "open" THEN lost + 1 ELSE lost

LoopCondition == queue # <<>> /\ Len(results) < max_pages

\* What the caller of a finished invocation got.
Outcome(raised) ==
    [start |-> start_url, urls |-> results, raised |-> raised,
     failed |-> failed_urls # {}, ok |-> ok_count]

\* get_real_time_data(url): enter the context (a new session) and start
\* crawl_with_discovery with its frontier and result list.
GetRealTimeData(url) ==
    /\ pc = "idle"
    /\ Len(returned) < MaxCrawls
    /\ session' = "open"
    /\ lost' = LostByEnter
    /\ start_url' = url
    /\ queue' = <<[url |-> url, depth |-> 0]>>
    /\ results' = <<>>
    /\ wave' = <<>>
    /\ fetch_count' = [u \in DOMAIN fetch_count |-> 0]
    /\ failed_urls' = {}
    /\ ok_count' = 0
    /\ pc' = "loop"
    /\ UNCHANGED <<max_pages, max_depth, max_concurrent, visited_urls, site,
                   returned, responses, suspended, cacheVars, indexVars, chatVars, memoryVars, scraperVars,
                   outer>>

\* The while test fails: return results, and the context closes the session.
LoopExit ==
    /\ pc = "loop"
    /\ ~LoopCondition
    /\ pc' = "idle"
    /\ session' = "closed"
    /\ returned' = Append(returned, Outcome(FALSE))
    /\ UNCHANGED <<max_pages, max_depth, max_concurrent, visited_urls,
                   start_url, queue, results, wave, site, fetch_count,
                   failed_urls, ok_count, responses, suspended, cacheVars, indexVars, chatVars, memoryVars, scraperVars,
                   outer, lost>>

\* self.max_concurrent is read in the loop body and the attribute does not
\* exist: AttributeError leaves crawl_with_discovery.
RaiseAttributeError ==
    /\ pc = "loop"
    /\ LoopCondition
    /\ max_concurrent = {}
    /\ pc' = "idle"
    /\ session' = "closed"
    /\ returned' = Append(returned, Outcome(TRUE))
    /\ UNCHANGED <<max_pages, max_depth, max_concurrent, visited_urls,
                   start_url, queue, results, wave, site, fetch_count,
                   failed_urls, ok_count, responses, suspended, cacheVars, indexVars, chatVars, memoryVars, scraperVars,
                   outer, lost>>

\* The popped entries leave no batch: break, return results.
BreakEmptyBatch ==
    /\ pc = "loop"
    /\ LoopCondition
    /\ \E n \in max_concurrent :
        /\ CurrentBatch(n) = <<>>
        /\ queue' = SubSeq(queue, Len(Popped(n)) + 1, Len(queue))
    /\ pc' = "idle"
    /\ session' = "closed"
    /\ returned' = Append(returned, Outcome(FALSE))
    /\ UNCHANGED <<max_pages, max_depth, max_concurrent, visited_urls,
                   start_url, results, wave, site, fetch_count, failed_urls,
                   ok_count, responses, suspended, cacheVars, indexVars, chatVars, memoryVars, scraperVars,
                   outer, lost>>

\* Pop a batch and start one fetch per entry (asyncio.gather).
WaveStart ==
    /\ pc = "loop"
    /\ LoopCondition
    /\ \E n \in max_concurrent :
        LET batch == CurrentBatch(n)
            tasks == [i \in 1..Len(batch) |-> FetchBegin(batch[i])]
        IN  /\ batch # <<>>
            /\ queue' = SubSeq(queue, Len(Popped(n)) + 1, Len(queue))
            /\ wave' = tasks
            /\ fetch_count' =
                 [u \in DOMAIN fetch_count |->
                    fetch_count[u] + Cardinality({i \in 1..Len(tasks) :
                        tasks[i].url = u /\ tasks[i].st = "inflight"})]
    /\ pc' = "gather"
    /\ UNCHANGED <<max_pages, max_depth, max_concurrent, visited_urls,
                   session, start_url, results, site, failed_urls, ok_count,
                   returned, responses, suspended, cacheVars, indexVars, chatVars, memoryVars, scraperVars,
                   outer, lost>>

\* One fetch of the wave answers 200 with an HTML page: the URL becomes
\* visited and the page's content and links are extracted.
FetchOk(i) ==
    /\ pc = "gather"
    /\ i \in DOMAIN wave
    /\ wave[i].st = "inflight"
    /\ wave[i].url \in SameUrls
    /\ \/ /\ wave[i].url \in DOMAIN site
          /\ site' = site
       \/ /\ wave[i].url \notin DOMAIN site
          /\ \E links \in SUBSET (SameUrls \ {wave[i].url}) :
                site' = [u \in DOMAIN site \cup {wave[i].url} |->
                            IF u = wave[i].url THEN links ELSE site[u]]
    /\ visited_urls' = visited_urls \cup {wave[i].url}
    /\ wave' = [wave EXCEPT ![i].st = "ok"]
    /\ ok_count' = ok_count + 1
    /\ UNCHANGED <<max_pages, max_depth, max_concurrent, session, pc,
                   start_url, queue, results, fetch_count, failed_urls,
                   returned, responses, suspended, cacheVars, indexVars, chatVars, memoryVars, scraperVars,
                   outer, lost>>

\* A failing fetch whose exception leaves gather and the crawl.
FetchFailAborts(i) ==
    /\ pc = "gather"
    /\ i \in DOMAIN wave
    /\ wave[i].st = "inflight"
    /\ wave' = <<>>
    /\ failed_urls' = failed_urls \cup {wave[i].url}
    /\ pc' = "idle"
    /\ session' = "closed"
    /\ returned' = Append(returned,
            [start |-> start_url, urls |-> results, raised |-> TRUE,
             failed |-> TRUE, ok |-> ok_count])
    /\ UNCHANGED <<max_pages, max_depth, max_concurrent, visited_urls,
                   start_url, queue, results, site, fetch_count, ok_count,
                   responses, suspended, cacheVars, indexVars, chatVars, memoryVars, scraperVars,
                   outer, lost>>

\* One fetch of the wave raises, times out, answers another status or
\* answers something that is not HTML: None, and the URL stays unvisited.
FetchFail(i) ==
    /\ pc = "gather"
    /\ i \in DOMAIN wave
    /\ wave[i].st = "inflight"
    /\ wave' = [wave EXCEPT ![i].st = "none"]
    /\ failed_urls' = failed_urls \cup {wave[i].url}
    /\ UNCHANGED <<max_pages, max_depth, max_concurrent, visited_urls,
                   session, pc, start_url, queue, results, site, fetch_count,
                   ok_count, returned, responses, suspended, cacheVars, indexVars, chatVars, memoryVars, scraperVars,
                   outer, lost>>

\* gather has every result: append the records, enqueue the links, sleep.
ProcessWave ==
    /\ pc = "gather"
    /\ \A i \in DOMAIN wave : wave[i].st # "inflight"
    /\ results' = results \o Records(wave)
    /\ queue' \in Enqueued(wave, queue, visited_urls)
    /\ wave' = <<>>
    /\ pc' = "loop"
    /\ UNCHANGED <<max_pages, max_depth, max_concurrent, visited_urls,
                   session, start_url, site, fetch_count, failed_urls,
                   ok_count, returned, responses, suspended, cacheVars, indexVars, chatVars, memoryVars, scraperVars,
                   outer, lost>>

\* Whether the running invocation is at an await: in gather, or in the
\* sleep that ends an iteration (a frontier that is not the initial one).
AtAwait ==
    \/ pc = "gather"
    \/ pc = "loop" /\ queue # <<[url |-> start_url, depth |-> 0]>>

\* The locals of the running invocation, and the fields of the crawler as
\* it leaves them when it is suspended.
Snapshot ==
    [pc |-> pc, start_url |-> start_url, queue |-> queue,
     results |-> results, wave |-> wave, fetch_count |-> fetch_count,
     failed_urls |-> failed_urls, ok_count |-> ok_count,
     visited_urls |-> visited_urls, session |-> session]

\* get_real_time_data(url) called while the invocation that runs is at an
\* await: __aenter__ assigns a new session to self.session and a second
\* crawl_with_discovery starts, on the same crawler.
GetRealTimeDataConcurrently(url) ==
    /\ AtAwait
    /\ suspended = <<>>
    /\ returned = <<>>
    /\ suspended' = <<Snapshot>>
    /\ session' = "open"
    /\ lost' = LostByEnter
    /\ start_url' = url
    /\ queue' = <<[url |-> url, depth |-> 0]>>
    /\ results' = <<>>
    /\ wave' = <<>>
    /\ fetch_count' = [u \in DOMAIN fetch_count |-> 0]
    /\ failed_urls' = {}
    /\ ok_count' = 0
    /\ pc' = "loop"
    /\ UNCHANGED <<max_pages, max_depth, max_concurrent, visited_urls, site,
                   returned, responses, cacheVars, indexVars, chatVars,
                   memoryVars, scraperVars,
                   outer>>

\* The event loop leaves the invocation that runs, at an await or at its
\* end, and resumes the one that waits.
Switch ==
    /\ suspended # <<>>
    /\ AtAwait \/ pc = "idle"
    /\ pc' = suspended[1].pc
    /\ start_url' = suspended[1].start_url
    /\ queue' = suspended[1].queue
    /\ results' = suspended[1].results
    /\ wave' = suspended[1].wave
    /\ fetch_count' = suspended[1].fetch_count
    /\ failed_urls' = suspended[1].failed_urls
    /\ ok_count' = suspended[1].ok_count
    /\ suspended' = IF pc = "idle" THEN <<>> ELSE <<Snapshot>>
    /\ UNCHANGED <<max_pages, max_depth, max_concurrent, visited_urls,
                   session, site, returned, responses, cacheVars, indexVars,
                   chatVars, memoryVars, scraperVars,
                   outer, lost>>

\* 'async with lightweight_crawler as crawler:' in a caller of the crawler:
\* __aenter__ assigns a new session to self.session.
EnterContext ==
    /\ pc = "idle"
    /\ ~outer
    /\ suspended = <<>>
    /\ Len(returned) < MaxCrawls
    /\ outer' = TRUE
    /\ session' = "open"
    /\ lost' = LostByEnter
    /\ UNCHANGED <<max_pages, max_depth, max_concurrent, visited_urls, pc,
                   start_url, queue, results, wave, site, fetch_count,
                   failed_urls, ok_count, returned, suspended, responses,
                   cacheVars, indexVars, chatVars, memoryVars, scraperVars>>

\* The caller's block ends, the call made in it being over: __aexit__
\* closes the session that self.session holds, if any.
ExitContext ==
    /\ outer
    /\ pc = "idle"
    /\ outer' = FALSE
    /\ session' = IF session = "none" THEN "none" ELSE "closed"
    /\ UNCHANGED <<max_pages, max_depth, max_concurrent, visited_urls, pc,
                   start_url, queue, results, wave, site, fetch_count,
                   failed_urls, ok_count, returned, suspended, lost,
                   responses, cacheVars, indexVars, chatVars, memoryVars, scraperVars>>

\* ----------------------------------------------------------- scrape routes

\* The keyword parameters of the two crawler methods.
GetRealTimeDataParams == {"url"}

CrawlWithDiscoveryParams == {"start_url"}

NoContentDetail == "No content found to scrape"

\* Calling a method with keywords: TypeError unless it has a parameter for
\* each; otherwise what the method gives (body).
CallWithKeywords(method, params, keywords, body) ==
    IF keywords \subseteq params
    THEN body
    ELSE [kind |-> "raise", exc |-> "TypeError", status |-> 0,
          detail |-> method \o "() got an unexpected keyword argument",
          pages |-> 0]

\* The try block of a scrape route, given the outcome of its crawler call:
\* an exception of the call leaves it, an empty list raises
\* HTTPException(400), any other list is stored and answered 200.
TryBlock(call) ==
    IF call.kind = "raise" THEN call
    ELSE IF call.pages = 0
         THEN [kind |-> "raise", exc |-> "HTTPException", status |-> 400,
               detail |-> NoContentDetail, pages |-> 0]
         ELSE [kind |-> "return", exc |-> "", status |-> 200, detail |-> "",
               pages |-> call.pages]

\* except Exception as e: raise HTTPException(500, detail=str(e)).
\* HTTPException is an Exception, the one the try block raised included.
ExceptException(r) ==
    IF r.kind = "raise"
    THEN [kind |-> "raise", exc |-> "HTTPException", status |-> 500,
          detail |-> r.detail, pages |-> 0]
    ELSE r

\* What a crawl of url would give a caller that passes url correctly and
\* has max_concurrent assigned: no page for DeadUrl.
CrawlYieldsNothing(url) == url = DeadUrl

CrawlerCall(url) ==
    [kind |-> "return", exc |-> "", status |-> 0, detail |-> "",
     pages |-> IF CrawlYieldsNothing(url) THEN 0 ELSE 1]

\* POST /scrape/ : crawler.get_real_time_data(start_url=request.url)
ScrapeWebsiteResponse(url) ==
    ExceptException(TryBlock(
        CallWithKeywords("get_real_time_data", GetRealTimeDataParams,
                         {"start_url"}, CrawlerCall(url))))

\* POST /scrape/enhanced :
\* crawler.crawl_with_discovery(start_url=request.url, max_depth=2)
ScrapeWebsiteEnhancedResponse(url) ==
    ExceptException(TryBlock(
        CallWithKeywords("crawl_with_discovery", CrawlWithDiscoveryParams,
                         {"start_url", "max_depth"}, CrawlerCall(url))))

\* A scrape route serves one request: it enters the crawler's context (a
\* new session), calls the crawler, leaves the context (the session is
\* closed) and answers.
ScrapeWebsite(url) ==
    /\ Len(responses) < MaxRequests
    /\ session' = "closed"
    /\ lost' = LostByEnter
    /\ responses' = Append(responses,
            [route |-> "/scrape/", url |-> url,
             status |-> ScrapeWebsiteResponse(url).status,
             detail |-> ScrapeWebsiteResponse(url).detail])
    /\ UNCHANGED <<max_pages, max_depth, max_concurrent, visited_urls, pc,
                   start_url, queue, results, wave, site, fetch_count,
                   failed_urls, ok_count, returned, suspended, cacheVars, indexVars, chatVars, memoryVars, scraperVars,
                   outer>>

ScrapeWebsiteEnhanced(url) ==
    /\ Len(responses) < MaxRequests
    /\ session' = "closed"
    /\ lost' = LostByEnter
    /\ responses' = Append(responses,
            [route |-> "/scrape/enhanced", url |-> url,
             status |-> ScrapeWebsiteEnhancedResponse(url).status,
             detail |-> ScrapeWebsiteEnhancedResponse(url).detail])
    /\ UNCHANGED <<max_pages, max_depth, max_concurrent, visited_urls, pc,
                   start_url, queue, results, wave, site, fetch_count,
                   failed_urls, ok_count, returned, suspended, cacheVars, indexVars, chatVars, memoryVars, scraperVars,
                   outer>>

\* ------------------------------------------------------------------ cache

Keys == 1..NumKeys

Values == 1..NumValues

\* _cleanup_expired at time t
\* A cleanup that also drops the entries whose age is the TTL.
CleanupExpiredEarly(c, t) ==
    LET fresh(e) == ~(t - e.timestamp >= ttl)
    IN  SelectSeq(c, fresh)

CleanupExpired(c, t) ==
    LET fresh(e) == ~(t - e.timestamp > ttl)
    IN  SelectSeq(c, fresh)

\* An eviction that takes the entry stored last.
NewestIndex(c) ==
    CHOOSE i \in 1..Len(c) :
        \A j \in 1..Len(c) :
            /\ c[i].timestamp >= c[j].timestamp
            /\ c[j].timestamp = c[i].timestamp => i >= j

\* min(self.cache.keys(), key=timestamp): the first entry, in the order of
\* the dict, that has the least timestamp.
OldestIndex(c) ==
    CHOOSE i \in 1..Len(c) :
        \A j \in 1..Len(c) :
            /\ c[i].timestamp <= c[j].timestamp
            /\ c[j].timestamp = c[i].timestamp => i <= j

Remove(c, i) == SubSeq(c, 1, i - 1) \o SubSeq(c, i + 1, Len(c))

\* An eviction that waits until the cache is over its size.
CleanupOldestWhenOver(c) ==
    IF Len(c) > max_size THEN Remove(c, OldestIndex(c)) ELSE c

\* _cleanup_oldest
CleanupOldest(c) ==
    IF Len(c) >= max_size THEN Remove(c, OldestIndex(c)) ELSE c

\* A set that keeps the entry a key has.
StoreKeepingFirst(c, k, v, t) ==
    IF \E i \in 1..Len(c) : c[i].key = k
    THEN c
    ELSE Append(c, [key |-> k, data |-> v, timestamp |-> t])

\* self.cache[key] = {...}: a present key keeps its place in the dict.
Store(c, k, v, t) ==
    LET e == [key |-> k, data |-> v, timestamp |-> t]
    IN  IF \E i \in 1..Len(c) : c[i].key = k
        THEN [i \in 1..Len(c) |-> IF c[i].key = k THEN e ELSE c[i]]
        ELSE Append(c, e)

HasKey(c, k) == \E i \in 1..Len(c) : c[i].key = k

Lookup(c, k) == c[CHOOSE i \in 1..Len(c) : c[i].key = k]

WithoutKey(c, k) ==
    LET other(e) == e.key # k
    IN  SelectSeq(c, other)

\* The second reading of time.time() in one call: the clock may have moved.
LaterTimes == {t \in now..MaxTime : t <= now + 1}

\* set(key, value)
CacheSet(k, v) ==
    \E t \in LaterTimes :
        LET live == CleanupExpired(cache, now)
            kept == CleanupOldest(live)
        IN  /\ cache' = Store(kept, k, v, t)
            /\ evicted' = IF Len(kept) < Len(live)
                           THEN <<live[OldestIndex(live)].timestamp>>
                           ELSE <<>>
            /\ now' = t
            /\ ret' = <<>>
            /\ UNCHANGED <<max_size, ttl, heap, crawlerVars, responses, indexVars, chatVars, memoryVars, scraperVars>>

\* A get that serves whatever the cleanup left.
FreshAlways(e, t) == TRUE

\* time.time() - value['timestamp'] <= self.ttl
Fresh(e, t) == t - e.timestamp <= ttl

\* get(key)
CacheGet(k) ==
    \E t \in LaterTimes :
        LET live == CleanupExpired(cache, now)
        IN  /\ IF HasKey(live, k)
               THEN IF Fresh(Lookup(live, k), t)
                    THEN /\ ret' = <<Lookup(live, k).data>>
                         /\ cache' = live
                    ELSE /\ ret' = <<>>
                         /\ cache' = WithoutKey(live, k)
               ELSE /\ ret' = <<>>
                    /\ cache' = live
            /\ now' = t
            /\ evicted' = <<>>
            /\ UNCHANGED <<max_size, ttl, heap, crawlerVars, responses, indexVars, chatVars, memoryVars, scraperVars>>

\* delete(key)
CacheDelete(k) ==
    /\ cache' = WithoutKey(cache, k)
    /\ evicted' = <<>>
    /\ ret' = <<>>
    /\ UNCHANGED <<max_size, ttl, now, heap, crawlerVars, responses, indexVars, chatVars, memoryVars, scraperVars>>

\* clear()
CacheClear ==
    /\ cache' = <<>>
    /\ evicted' = <<>>
    /\ ret' = <<>>
    /\ UNCHANGED <<max_size, ttl, now, heap, crawlerVars, responses, indexVars, chatVars, memoryVars, scraperVars>>

\* get_stats()
CacheGetStats ==
    /\ cache' = CleanupExpired(cache, now)
    /\ evicted' = <<>>
    /\ ret' = <<>>
    /\ UNCHANGED <<max_size, ttl, now, heap, crawlerVars, responses, indexVars, chatVars, memoryVars, scraperVars>>

Contents == 0..MaxContent

\* The caller changes an object it once passed to set, or was given by get:
\* 'data': value (line 52) and return value['data'] (line 41) hand over the
\* object itself, so the entry changes with it.
Mutate(o) ==
    \E c \in Contents \ {heap[o]} :
        /\ heap' = [heap EXCEPT ![o] = c]
        /\ UNCHANGED <<cache, max_size, ttl, now, ret, evicted, crawlerVars,
                       responses, indexVars, chatVars, memoryVars, scraperVars>>

\* Time passes.
Tick ==
    /\ now < MaxTime
    /\ now' = now + 1
    /\ ret' = <<>>
    /\ reply' = <<>>
    /\ UNCHANGED <<cache, max_size, ttl, evicted, heap, crawlerVars,
                   responses, indexVars, together_key, openrouter_key,
                   blank_keys, pending, stored_by, memoryVars, scraperVars>>

\* ----------------------------------------------------------- vector store

Urls == 1..NumUrls

\* Texts are sequences of characters. The embedding model puts a text at
\* its length, so that two texts are the nearer the closer their lengths.
Docs == {[i \in 1..n |-> "d"] : n \in 1..NumDocs}

Queries == {[i \in 1..n |-> "a"] : n \in 1..NumQueries}

\* hashlib.md5(text.encode()).hexdigest(): a digest, told apart from the
\* text; no two of the texts here share one.
Md5(text) == <<"md5", text>>

\* [0.0] * 384
ZeroVector == [i \in 1..EmbeddingDim |-> 0]

\* self.embedding_model.encode(texts, convert_to_numpy=True).tolist(), for
\* one text
Encode(text) == [i \in 1..EmbeddingDim |-> IF i = 1 THEN Len(text) ELSE 0]

\* create_embeddings(texts); encodes: whether encode() succeeds
CreateEmbeddings(texts, encodes) ==
    IF embedding_model = "none" \/ ~encodes
    THEN [i \in DOMAIN texts |-> ZeroVector]
    ELSE [i \in DOMAIN texts |-> Encode(texts[i])]

\* The distance of the collection between two embeddings.
Distance(a, b) == IF a[1] >= b[1] THEN a[1] - b[1] ELSE b[1] - a[1]

\* collection.query(query_embeddings=[e], n_results=k): the ids of the
\* nearest records, nearest first, in any order among equally near ones;
\* all the records when there are fewer than k.
Nearest(e, k) ==
    LET ids == DOMAIN collection
        n == Min(k, Cardinality(ids))
        d(id) == Distance(collection[id].embedding, e)
    IN  {r \in UNION {Perms(S) : S \in {T \in SUBSET ids : Cardinality(T) = n}} :
            /\ \A i, j \in 1..n : i <= j => d(r[i]) <= d(r[j])
            /\ \A id \in ids \ Range(r) : \A i \in 1..n : d(r[i]) <= d(id)}

\* formatted_results: content, metadata and score = 1 - distance of each
\* match, in the order of the matches
FormattedResults(r, e) ==
    [i \in DOMAIN r |->
        [content |-> collection[r[i]].document,
         url |-> collection[r[i]].url,
         score |-> 1 - Distance(collection[r[i]].embedding, e)]]

MemoHasKey(key) == \E i \in 1..Len(memo) : memo[i].key = key

MemoLookup(key) == memo[CHOOSE i \in 1..Len(memo) : memo[i].key = key]

\* A memo that is cut to its first entries.
MemoStoreFirst(key, res) ==
    LET e == [key |-> key, results |-> res, at |-> now]
        m == IF MemoHasKey(key)
             THEN [i \in 1..Len(memo) |-> IF memo[i].key = key THEN e ELSE memo[i]]
             ELSE Append(memo, e)
    IN  IF Len(m) > max_cache_size
        THEN SubSeq(m, 1, Min(MemoKeep, Len(m)))
        ELSE m

\* self.cache[cache_key] = formatted_results, then the cut to the last
\* entries when the dict grew over max_cache_size
MemoStore(key, res) ==
    LET e == [key |-> key, results |-> res, at |-> now]
        m == IF MemoHasKey(key)
             THEN [i \in 1..Len(memo) |-> IF memo[i].key = key THEN e ELSE memo[i]]
             ELSE Append(memo, e)
    IN  IF Len(m) > max_cache_size
        THEN SubSeq(m, Len(m) - Min(MemoKeep, Len(m)) + 1, Len(m))
        ELSE m

\* What the chroma client may do on a call: work, or raise.
StoreOutcomes == {"ok", "raises"}

\* collection.add(ids=[doc_id], ...): a record is added under a new id; an
\* id that is already there keeps its record (the add is refused or
\* ignored, depending on the version of the client).
CollectionAdd(doc_id, rec) ==
    IF doc_id \in DOMAIN collection
    THEN collection
    ELSE [id \in DOMAIN collection \cup {doc_id} |->
            IF id = doc_id THEN rec ELSE collection[id]]

\* similarity_search(query, k), as far as the service goes; getting,
\* querying: what get_collection() and collection.query() come to; encodes:
\* whether encode() succeeds
SearchStep(query, k, getting, encodes, querying) ==
        LET cache_key == Md5(query)
            e == CreateEmbeddings(<<query>>, encodes)[1]
            \* failed: the store raised; zeroed: the embedding step failed;
            \* size: len(self.cache) when the call began
            call == [op |-> "search", query |-> query, k |-> k,
                     size |-> Len(memo)]
        IN  /\ IF getting = "raises"
               THEN /\ found' = call @@ [results |-> <<>>, queried |-> FALSE,
                                        hit |-> FALSE, age |-> 0,
                                        failed |-> TRUE, zeroed |-> FALSE]
                    /\ memo' = memo
               ELSE IF MemoHasKey(cache_key)
               THEN /\ found' = call @@
                            [results |-> MemoLookup(cache_key).results,
                             queried |-> FALSE, hit |-> TRUE,
                             age |-> now - MemoLookup(cache_key).at,
                             failed |-> FALSE, zeroed |-> FALSE]
                    /\ memo' = memo
               ELSE IF querying = "raises"
               THEN /\ found' = call @@ [results |-> <<>>, queried |-> TRUE,
                                        hit |-> FALSE, age |-> 0,
                                        failed |-> TRUE, zeroed |-> e = ZeroVector]
                    /\ memo' = memo
               ELSE \E r \in Nearest(e, k) :
                    /\ found' = call @@
                            [results |-> FormattedResults(r, e),
                             queried |-> TRUE, hit |-> FALSE, age |-> 0,
                             failed |-> FALSE, zeroed |-> e = ZeroVector]
                    /\ memo' = MemoStore(cache_key, FormattedResults(r, e))
            /\ UNCHANGED <<embedding_model, collection, max_cache_size>>

\* similarity_search(query, k), called on its own
SimilaritySearch(query, k) ==
    /\ \E getting \in StoreOutcomes, encodes \in BOOLEAN,
          querying \in StoreOutcomes :
            SearchStep(query, k, getting, encodes, querying)
    /\ UNCHANGED <<crawlerVars, responses, cacheVars, chatVars, memoryVars, scraperVars>>

\* add_webpage(url, content, title, metadata)
AddWebpage(url, content) ==
    \E getting \in StoreOutcomes, encodes \in BOOLEAN,
       adding \in StoreOutcomes :
        LET doc_id == Md5(url)
            embedding == CreateEmbeddings(<<content>>, encodes)
            rec == [document |-> content, embedding |-> embedding[1],
                    url |-> url]
        IN  /\ collection' =
                    IF getting = "raises" \/ adding = "raises"
                    THEN collection
                    ELSE CollectionAdd(doc_id, rec)
            /\ found' = [op |-> "add", url |-> url, content |-> content,
                         failed |-> (getting = "raises" \/ adding = "raises")]
            /\ UNCHANGED <<embedding_model, memo, max_cache_size,
                           crawlerVars, responses, cacheVars, chatVars, memoryVars, scraperVars>>

\* create_embeddings(texts), called on its own
CreateEmbeddingsCall(texts) ==
    \E encodes \in BOOLEAN :
        /\ found' = [op |-> "embed", texts |-> texts, encodes |-> encodes,
                     vectors |-> CreateEmbeddings(texts, encodes)]
        /\ UNCHANGED <<embedding_model, collection, memo, max_cache_size,
                       crawlerVars, responses, cacheVars, chatVars, memoryVars, scraperVars>>

\* ------------------------------------------------------------ LLM service

\* str.strip(), of spaces
RECURSIVE Strip(_)
Strip(text) ==
    IF text = <<>> THEN <<>>
    ELSE IF Head(text) = " " THEN Strip(Tail(text))
    ELSE IF text[Len(text)] = " " THEN Strip(SubSeq(text, 1, Len(text) - 1))
    ELSE text

\* What a provider may send as the content of its message.
LlmTexts ==
    {<<>>,
     <<" ", " ", " ", " ", " ", " ">>,
     <<" ", "a", "b", "c", "d", "e", " ">>,
     <<"a", "b", "c", "d", "e", "f">>}

\* What a call of a provider may come to: an exception (a connection
\* error, a malformed body), a timeout, a status other than 200, or a 200
\* with a message.
ProviderOutcomes ==
    {[kind |-> "exception", content |-> <<>>],
     [kind |-> "timeout", content |-> <<>>],
     [kind |-> "status", content |-> <<>>]}
        \cup {[kind |-> "ok", content |-> text] : text \in LlmTexts}

\* bool(KEY and KEY.strip()) of the provider's key
Configured(api_name) ==
    IF api_name = "together" THEN together_key ELSE openrouter_key

\* 'and settings.TOGETHER_API_KEY', 'and settings.OPENROUTER_API_KEY' in
\* _call_api: the key is not empty
HasKeyFor(api_name) == Configured(api_name) \/ api_name \in blank_keys

\* _call_api(api_name, endpoint, prompt, max_tokens): what it returns, or
\* that it raises
CallApi(api_name, outcome) ==
    IF ~HasKeyFor(api_name)
    THEN [raises |-> FALSE, text |-> <<>>]
    ELSE IF outcome.kind \in {"exception", "timeout"}
    THEN [raises |-> TRUE, text |-> <<>>]
    ELSE IF outcome.kind = "ok"
    THEN [raises |-> FALSE, text |-> Strip(outcome.content)]
    ELSE [raises |-> FALSE, text |-> <<>>]

\* _get_enhanced_fallback_response(query, context): the template about the
\* documents found when there is context, the generic one otherwise; both
\* quote the query.
FallbackResponse(query, context) ==
    IF context # <<>>
    THEN [kind |-> "fallback_context", text |-> query]
    ELSE [kind |-> "fallback_generic", text |-> query]

\* response and len(response.strip()) > 5
Usable(r) == ~r.raises /\ r.text # <<>> /\ Len(Strip(r.text)) > 5

\* relevant_context = context[:5]
PromptContext == 5

\* A prompt that is about the context whatever the context.
BuildContextPrompt(query, context) ==
    [persona |-> "context", query |-> query,
     parts |-> [i \in 1..Min(PromptContext, Len(context)) |->
                    [url |-> context[i].url, content |-> context[i].content]]]

\* _build_optimized_prompt(query, context): the generic persona and the
\* query when there is no context; otherwise the persona of the knowledge
\* base, a part with url and content for each of the first entries of the
\* context, and the query.
BuildOptimizedPrompt(query, context) ==
    IF context = <<>>
    THEN [persona |-> "generic", query |-> query, parts |-> <<>>]
    ELSE [persona |-> "context", query |-> query,
          parts |-> [i \in 1..Min(PromptContext, Len(context)) |->
                        [url |-> context[i].url,
                         content |-> context[i].content]]]

\* The providers in the reverse order.
EndpointsReversed == <<"openrouter", "together">>

\* self._endpoints, in the order of its items()
Endpoints == <<"together", "openrouter">>

\* The for loop of generate_response from the i-th endpoint on. outcomes:
\* what a call of together (1) and of openrouter (2) comes to; tried: the
\* providers _call_api was called for so far; fallback: the template.
RECURSIVE TryApis(_, _, _, _)
TryApis(i, outcomes, tried, fallback) ==
    IF i > Len(Endpoints)
    THEN [raises |-> FALSE, answer |-> fallback, tried |-> tried]
    ELSE LET api_name == Endpoints[i]
             response ==
                CallApi(api_name,
                        outcomes[IF api_name = "together" THEN 1 ELSE 2])
         IN  IF Usable(response)
             THEN [raises |-> FALSE,
                   answer |-> [kind |-> "llm", text |-> response.text],
                   tried |-> Append(tried, api_name)]
             ELSE TryApis(i + 1, outcomes, Append(tried, api_name), fallback)

\* A generate_response that lets the failure of the last provider out.
GenerateResponsePropagating(query, context, outcomes) ==
    LET r == TryApis(1, outcomes, <<>>, FallbackResponse(query, context))
        last == CallApi("openrouter", outcomes[2])
        g == IF ~together_key /\ ~openrouter_key
             THEN [raises |-> FALSE,
                   answer |-> FallbackResponse(query, context),
                   tried |-> <<>>]
             ELSE IF r.answer.kind = "llm"
             THEN r
             ELSE [r EXCEPT !.raises = last.raises]
    IN  g @@ [prompt |-> BuildOptimizedPrompt(query, context)]

\* generate_response(query, context, max_tokens); outcomes: what the call
\* of each provider comes to
GenerateResponse(query, context, outcomes) ==
    LET prompt == BuildOptimizedPrompt(query, context)
        r == IF ~together_key /\ ~openrouter_key
             THEN [raises |-> FALSE,
                   answer |-> FallbackResponse(query, context),
                   tried |-> <<>>]
             ELSE TryApis(1, outcomes, <<>>, FallbackResponse(query, context))
    IN  r @@ [prompt |-> prompt]

\* ------------------------------------------------------------- chat route

\* The requests: request.query, and request.conversation_id as <<>> for
\* None and <<text>> for a string.
ChatRequests ==
    {[query |-> <<"a">>, conversation_id |-> <<>>],
     [query |-> <<"a">>, conversation_id |-> <<<<"N", "o", "n", "e">>>>],
     [query |-> <<"a">>, conversation_id |-> <<<<"b", ":", "c">>>>],
     [query |-> <<"a", ":", "b">>, conversation_id |-> <<<<"c">>>>]}

\* str(conversation_id), as the f-string formats it
Str(conversation_id) ==
    IF conversation_id = <<>>
    THEN <<"N", "o", "n", "e">>
    ELSE conversation_id[1]

\* f"chat:{request.query}:{request.conversation_id}"
ChatCacheKey(query, conversation_id) ==
    <<"c", "h", "a", "t", ":">> \o query \o <<":">> \o Str(conversation_id)

\* request.conversation_id or "default"
ConversationIdOrDefault(conversation_id) ==
    IF conversation_id = <<>> \/ conversation_id[1] = <<>>
    THEN <<"d", "e", "f", "a", "u", "l", "t">>
    ELSE conversation_id[1]

\* The urls of all the pages of the collection.
SourcesOfCollection(context) ==
    LET ids == DOMAIN collection
        order == CHOOSE p \in Perms(ids) : TRUE
    IN  [i \in DOMAIN order |-> collection[order[i]].url]

\* sources = [item['metadata'].get('url', 'unknown') for item in context]
Sources(context) == [i \in DOMAIN context |-> context[i].url]

\* ChatQueryResponse(...) of lines 58-65, but for tokens_used, the number
\* of words of the answer
ChatQueryResponse(answer, conversation_id, context) ==
    [response |-> answer,
     conversation_id |-> ConversationIdOrDefault(conversation_id),
     sources |-> Sources(context),
     confidence |-> "0.9",
     response_time |-> "2.0"]

\* k=5
ChatK == 5

\* The history by, kept for the keys of the cache c.
StoredBy(c, by) == [key \in {c[i].key : i \in DOMAIN c} |-> by[key]]

\* chat_query up to its first return or to the await: cache.get, and on a
\* miss similarity_search; limit: how many calls may wait at the await
ChatQueryBeginUpTo(query, conversation_id, limit) ==
    \E t \in LaterTimes :
        LET cache_key == ChatCacheKey(query, conversation_id)
            live == CleanupExpired(cache, now)
            served == HasKey(live, cache_key) /\ Fresh(Lookup(live, cache_key), t)
        IN  /\ now' = t
            /\ cache' = IF HasKey(live, cache_key) /\ ~served
                        THEN WithoutKey(live, cache_key)
                        ELSE live
            /\ IF served
               THEN /\ reply' = [query |-> query,
                                 conversation_id |-> conversation_id,
                                 status |-> 200,
                                 body |-> Lookup(live, cache_key).data,
                                 cached |-> TRUE,
                                 by |-> stored_by[cache_key],
                                 tried |-> <<>>, prompt |-> <<>>,
                                 replaced |-> <<>>]
                    /\ UNCHANGED <<pending, indexVars>>
               ELSE /\ Len(pending) < limit
                    /\ \E getting \in StoreOutcomes :
                            SearchStep(query, ChatK, getting, TRUE, "ok")
                    /\ pending' = Append(pending,
                            [query |-> query,
                             conversation_id |-> conversation_id,
                             context |-> found'.results])
                    /\ reply' = <<>>
            /\ ret' = IF served THEN <<Lookup(live, cache_key).data>> ELSE <<>>
            /\ evicted' = <<>>
            /\ stored_by' = StoredBy(cache', stored_by)
            /\ UNCHANGED <<max_size, ttl, heap, together_key, openrouter_key,
                           blank_keys, crawlerVars, responses, memoryVars, scraperVars>>

ChatQueryBegin(query, conversation_id) ==
    ChatQueryBeginUpTo(query, conversation_id, MaxPending)

\* A response.dict() that leaves the sources out.
ResponseDictWithoutSources(response) == [response EXCEPT !.sources = <<>>]

\* response.dict()
ResponseDict(response) == response

\* chat_query from the await on: the answer of generate_response, the
\* response, cache.set and the return; an exception becomes a 500.
\* outcomes: what the calls of the two providers come to
ChatQueryEndWith(i, outcomes) ==
    /\ i \in DOMAIN pending
    /\ \E t \in LaterTimes :
        LET request == pending[i]
            cache_key == ChatCacheKey(request.query, request.conversation_id)
            llm_response ==
                GenerateResponse(request.query, request.context, outcomes)
            response ==
                ChatQueryResponse(llm_response.answer, request.conversation_id,
                                  request.context)
            live == CleanupExpired(cache, now)
            kept == CleanupOldest(live)
            asked == [query |-> request.query,
                      conversation_id |-> request.conversation_id]
        IN  /\ pending' = Remove(pending, i)
            /\ IF llm_response.raises
               THEN /\ reply' = asked @@
                            [status |-> 500, body |-> <<>>, cached |-> FALSE,
                             by |-> asked, tried |-> llm_response.tried,
                             prompt |-> llm_response.prompt,
                             replaced |-> <<>>]
                    /\ UNCHANGED <<cache, now, evicted, stored_by>>
               ELSE /\ reply' = asked @@
                            [status |-> 200, body |-> response,
                             cached |-> FALSE, by |-> asked,
                             tried |-> llm_response.tried,
                             prompt |-> llm_response.prompt,
                             replaced |-> IF HasKey(kept, cache_key)
                                          THEN <<stored_by[cache_key]>>
                                          ELSE <<>>]
                    /\ cache' = Store(kept, cache_key, ResponseDict(response), t)
                    /\ now' = t
                    /\ evicted' = IF Len(kept) < Len(live)
                                  THEN <<live[OldestIndex(live)].timestamp>>
                                  ELSE <<>>
                    /\ stored_by' =
                            StoredBy(cache', (cache_key :> asked) @@ stored_by)
            /\ ret' = <<>>
            /\ UNCHANGED <<max_size, ttl, heap, together_key, openrouter_key,
                           blank_keys, crawlerVars, responses, indexVars, memoryVars, scraperVars>>

ChatQueryEnd(i) ==
    \E outcomes \in ProviderOutcomes \X ProviderOutcomes :
        ChatQueryEndWith(i, outcomes)

\* --------------------------------------------------- conversation service

ConversationIds == 1..NumConversations

ExchangeTexts == 1..NumExchanges

\* [-5:]
MemoryLimit == 5

\* s[:5]
FirstExchanges(s) == SubSeq(s, 1, Min(MemoryLimit, Len(s)))

\* s[-5:]
LastExchanges(s) == SubSeq(s, Len(s) - Min(MemoryLimit, Len(s)) + 1, Len(s))

\* store_conversation_context(conversation_id, query, response)
StoreConversationContext(conversation_id, query, response) ==
    LET exchange == [query |-> query, response |-> response,
                     timestamp |-> now]
        listed == IF conversation_id \in DOMAIN conversation_memory
                  THEN conversation_memory[conversation_id]
                  ELSE <<>>
        history == IF conversation_id \in DOMAIN exchanges
                   THEN exchanges[conversation_id]
                   ELSE <<>>
    IN  /\ Len(history) < MaxStores
        /\ conversation_memory' =
                [c \in DOMAIN conversation_memory \cup {conversation_id} |->
                    IF c = conversation_id
                    THEN LastExchanges(Append(listed, exchange))
                    ELSE conversation_memory[c]]
        /\ exchanges' =
                [c \in DOMAIN exchanges \cup {conversation_id} |->
                    IF c = conversation_id
                    THEN Append(history, exchange)
                    ELSE exchanges[c]]
        /\ UNCHANGED <<crawlerVars, responses, cacheVars, indexVars, chatVars,
                       scraperVars>>

\* --------------------------------------------------------- scraper service

\* urls = [base_url, f"{base_url}/about", ...], for one base_url
ScraperUrls == [i \in 1..NumScraperUrls |-> i]

\* What a GET of a url comes to: a page with content parts, a page with
\* none, or a failure (an exception of the request, a status that
\* raise_for_status refuses).
FetchOutcomes == {"page", "empty", "fails"}

\* A scraper that marks every url it has sent a GET to.
RecordedAlways(marked, url, outcome) == marked \cup {url}

\* self.scraped_urls.add(url), reached when nothing was raised before
Recorded(marked, url, outcome) ==
    IF outcome = "fails" THEN marked ELSE marked \cup {url}

\* for url in urls[:max_pages]: the loop over what is left of the slice.
\* outcomes: what the GET of each url comes to; acc: self.scraped_urls and
\* results so far, and the urls fetched and failed so far.
RECURSIVE ScrapeLoop(_, _, _)
ScrapeLoop(urls, outcomes, acc) ==
    IF urls = <<>>
    THEN acc
    ELSE LET url == Head(urls)
         IN  IF url \in acc.scraped_urls
             THEN ScrapeLoop(Tail(urls), outcomes, acc)
             ELSE ScrapeLoop(Tail(urls), outcomes,
                    [scraped_urls |->
                        Recorded(acc.scraped_urls, url, outcomes[url]),
                     results |-> IF outcomes[url] = "page"
                                 THEN Append(acc.results, url)
                                 ELSE acc.results,
                     fetched |-> Append(acc.fetched, url),
                     failed |-> IF outcomes[url] = "fails"
                                THEN acc.failed \cup {url}
                                ELSE acc.failed])

\* scraper.scrape_website(max_pages=pages), base_url and delay as set
ScraperScrapeWebsite(pages) ==
    /\ \E outcomes \in [Range(ScraperUrls) -> FetchOutcomes] :
        LET r == ScrapeLoop(Take(ScraperUrls, pages), outcomes,
                    [scraped_urls |-> scraped_urls, results |-> <<>>,
                     fetched |-> <<>>, failed |-> {}])
        IN  /\ scraped_urls' = r.scraped_urls
            /\ scrape' = [max_pages |-> pages, before |-> scraped_urls,
                          fetched |-> r.fetched, failed |-> r.failed,
                          results |-> r.results]
            /\ fetched_ok' = fetched_ok \cup (Range(r.fetched) \ r.failed)
    /\ UNCHANGED <<crawlerVars, responses, cacheVars, indexVars, chatVars,
                   memoryVars>>

\* scraper.clear_cache()
ScraperClearCache ==
    /\ scraped_urls' = {}
    /\ fetched_ok' = {}
    /\ UNCHANGED <<scrape, crawlerVars, responses, cacheVars, indexVars,
                   chatVars, memoryVars>>

\* ------------------------------------------------------------ specification

InitCrawler ==
    /\ max_pages \in (1..MaxPages) \cup {10}
    /\ max_depth \in 0..MaxDepth
    /\ max_concurrent \in {{}} \cup {{n} : n \in 1..MaxConcurrent}
    /\ visited_urls = {}
    /\ session = "none"
    /\ outer = FALSE
    /\ lost = 0
    /\ pc = "idle"
    /\ start_url = SeedUrl
    /\ queue = <<>>
    /\ results = <<>>
    /\ wave = <<>>
    /\ site = [u \in {} |-> {}]
    /\ fetch_count = [u \in SameUrls \cup {DeadUrl} |-> 0]
    /\ failed_urls = {}
    /\ ok_count = 0
    /\ returned = <<>>
    /\ suspended = <<>>

\* cache = CacheService(), not used
CacheAtRest ==
    /\ cache = <<>>
    /\ max_size = 50
    /\ ttl = 3600
    /\ now = 0
    /\ ret = <<>>
    /\ evicted = <<>>
    /\ heap = [o \in Values |-> 0]

\* vectorstore = VectorStoreService(), not used
IndexAtRest ==
    /\ embedding_model = "loaded"
    /\ collection = <<>>
    /\ memo = <<>>
    /\ max_cache_size = 100
    /\ found = <<>>

\* scraper = OptimizedScraperService(), not used
ScraperAtRest ==
    /\ scraped_urls = {}
    /\ scrape = <<>>
    /\ fetched_ok = {}

\* ConversationService(), not used
MemoryAtRest ==
    /\ conversation_memory = <<>>
    /\ exchanges = <<>>

\* llm_service = LLMService() and the chat route, not used
ChatAtRest ==
    /\ together_key = FALSE
    /\ openrouter_key = FALSE
    /\ blank_keys = {}
    /\ pending = <<>>
    /\ reply = <<>>
    /\ stored_by = <<>>

Init ==
    /\ InitCrawler
    /\ responses = <<>>
    /\ CacheAtRest
    /\ IndexAtRest
    /\ ChatAtRest
    /\ MemoryAtRest
    /\ ScraperAtRest

Next ==
    \/ \E url \in {SeedUrl, DeadUrl} : GetRealTimeData(url)
    \/ LoopExit
    \/ RaiseAttributeError
    \/ BreakEmptyBatch
    \/ WaveStart
    \/ \E i \in 1..MaxConcurrent : FetchOk(i)
    \/ \E i \in 1..MaxConcurrent : FetchFail(i)
    \/ ProcessWave

Spec == Init /\ [][Next]_vars

\* lightweight_crawler = LightweightCrawler(), not used
CrawlerAtRest ==
    /\ max_pages = 20
    /\ max_depth = 2
    /\ max_concurrent = {}
    /\ visited_urls = {}
    /\ session = "none"
    /\ outer = FALSE
    /\ lost = 0
    /\ pc = "idle"
    /\ start_url = SeedUrl
    /\ queue = <<>>
    /\ results = <<>>
    /\ wave = <<>>
    /\ site = [u \in {} |-> {}]
    /\ fetch_count = [u \in SameUrls \cup {DeadUrl} |-> 0]
    /\ failed_urls = {}
    /\ ok_count = 0
    /\ returned = <<>>
    /\ suspended = <<>>

\* Two invocations on one crawler whose max_concurrent is assigned, the
\* second one starting while the first is at an await.
InitShared ==
    /\ Init
    /\ max_concurrent = {1}
    /\ max_pages = 1

NextShared ==
    \/ /\ GetRealTimeData(SeedUrl)
       /\ returned = <<>>
    \/ GetRealTimeDataConcurrently(SeedUrl)
    \/ Switch
    \/ LoopExit
    \/ BreakEmptyBatch
    \/ WaveStart
    \/ \E i \in 1..MaxConcurrent : FetchOk(i)
    \/ \E i \in 1..MaxConcurrent : FetchFail(i)
    \/ ProcessWave

SpecShared == InitShared /\ [][NextShared]_vars

\* Further URLs of the crawled host.
ExtraUrls == (NumPages + 4)..(NumPages + 3 + NumExtra)

\* A crawler with max_concurrent assigned on a site whose seed page links
\* to every other page and to the further URLs: more links than the
\* crawler takes from a page.
InitFanout ==
    /\ max_pages = 1
    /\ max_depth \in 0..MaxDepth
    /\ max_concurrent \in {{n} : n \in 1..MaxConcurrent}
    /\ visited_urls = {}
    /\ session = "none"
    /\ outer = FALSE
    /\ lost = 0
    /\ pc = "idle"
    /\ start_url = SeedUrl
    /\ queue = <<>>
    /\ results = <<>>
    /\ wave = <<>>
    /\ site = (SeedUrl :> ((SameUrls \ {SeedUrl}) \cup ExtraUrls))
    /\ fetch_count = [u \in SameUrls \cup {DeadUrl} |-> 0]
    /\ failed_urls = {}
    /\ ok_count = 0
    /\ returned = <<>>
    /\ suspended = <<>>
    /\ responses = <<>>
    /\ CacheAtRest
    /\ IndexAtRest
    /\ ChatAtRest
    /\ MemoryAtRest
    /\ ScraperAtRest

NextFanout ==
    \/ GetRealTimeData(SeedUrl)
    \/ LoopExit
    \/ BreakEmptyBatch
    \/ WaveStart
    \/ \E i \in 1..MaxConcurrent : FetchOk(i)
    \/ \E i \in 1..MaxConcurrent : FetchFail(i)
    \/ ProcessWave

SpecFanout == InitFanout /\ [][NextFanout]_vars

\* A caller that calls get_real_time_data inside its own 'async with'
\* block on the crawler, or outside any.
NextNested ==
    \/ EnterContext
    \/ ExitContext
    \/ GetRealTimeData(SeedUrl)
    \/ LoopExit
    \/ RaiseAttributeError
    \/ BreakEmptyBatch
    \/ WaveStart
    \/ \E i \in 1..MaxConcurrent : FetchOk(i)
    \/ \E i \in 1..MaxConcurrent : FetchFail(i)
    \/ ProcessWave

\* The crawler as constructed or with max_concurrent assigned.
InitNested ==
    /\ Init
    /\ max_pages = 1
    /\ max_concurrent \in {{}, {1}}

SpecNested == InitNested /\ [][NextNested]_vars

\* The scrape routes, serving requests one after the other.
InitScrape ==
    /\ CrawlerAtRest
    /\ responses = <<>>
    /\ CacheAtRest
    /\ IndexAtRest
    /\ ChatAtRest
    /\ MemoryAtRest
    /\ ScraperAtRest

NextScrape ==
    \/ \E url \in {SeedUrl, CrossUrl, DeadUrl} : ScrapeWebsite(url)
    \/ \E url \in {SeedUrl, CrossUrl, DeadUrl} : ScrapeWebsiteEnhanced(url)

SpecScrape == InitScrape /\ [][NextScrape]_vars

\* One CacheService and its callers.
InitCache ==
    /\ CrawlerAtRest
    /\ responses = <<>>
    /\ cache = <<>>
    /\ max_size \in 1..MaxCacheSize
    /\ ttl \in 1..MaxTtl
    /\ now = 0
    /\ ret = <<>>
    /\ evicted = <<>>
    /\ heap = [o \in Values |-> 0]
    /\ IndexAtRest
    /\ ChatAtRest
    /\ MemoryAtRest
    /\ ScraperAtRest

NextCache ==
    \/ \E k \in Keys, v \in Values : CacheSet(k, v)
    \/ \E k \in Keys : CacheGet(k)
    \/ \E k \in Keys : CacheDelete(k)
    \/ CacheClear
    \/ CacheGetStats
    \/ Tick

SpecCache == InitCache /\ [][NextCache]_vars

\* One CacheService and callers that go on using the objects they cached.
NextAlias ==
    \/ NextCache
    \/ \E o \in Values : Mutate(o)

SpecAlias == InitCache /\ [][NextAlias]_vars

\* One VectorStoreService, its ingests and its searches, and the clock.
InitIndex ==
    /\ CrawlerAtRest
    /\ responses = <<>>
    /\ cache = <<>>
    /\ max_size = 50
    /\ ttl \in 1..MaxTtl
    /\ now = 0
    /\ ret = <<>>
    /\ evicted = <<>>
    /\ heap = [o \in Values |-> 0]
    /\ embedding_model \in {"loaded", "none"}
    /\ collection = <<>>
    /\ memo = <<>>
    /\ max_cache_size = MaxMemoSize
    /\ found = <<>>
    /\ ChatAtRest
    /\ MemoryAtRest
    /\ ScraperAtRest

NextIndex ==
    \/ \E query \in Queries, k \in 1..MaxK : SimilaritySearch(query, k)
    \/ \E url \in Urls, content \in Docs : AddWebpage(url, content)
    \/ \E texts \in {<<>>, <<<<"d">>>>, <<<<"d">>, <<"a">>>>} :
            CreateEmbeddingsCall(texts)

SpecIndex == InitIndex /\ [][NextIndex]_vars

\* The same service while time passes: one page, searches with k = MaxK.
NextMemo ==
    \/ \E query \in Queries : SimilaritySearch(query, MaxK)
    \/ AddWebpage(1, <<"d">>)
    \/ Tick

SpecMemo == InitIndex /\ [][NextMemo]_vars

\* Enough query texts to fill the memo and go one over.
CutQueries == {[i \in 1..n |-> "a"] : n \in 1..(MaxMemoSize + 1)}

\* The same service searched with those texts, around one ingest.
NextCut ==
    \/ \E query \in CutQueries : SimilaritySearch(query, MaxK)
    \/ AddWebpage(1, <<"d">>)

InitCut == InitIndex /\ embedding_model = "loaded"

SpecCut == InitCut /\ [][NextCut]_vars

\* The collection after add_webpage(1, "d").
IngestedPage ==
    (Md5(1) :> [document |-> <<"d">>, embedding |-> Encode(<<"d">>),
                url |-> 1])

\* The chat route with its cache, the vector store with no page or one,
\* and the LLM service, but for the keys that are of whitespace.
InitChatBase ==
    /\ CrawlerAtRest
    /\ responses = <<>>
    /\ cache = <<>>
    /\ max_size = MaxCacheSize
    /\ ttl \in 1..MaxTtl
    /\ now = 0
    /\ ret = <<>>
    /\ evicted = <<>>
    /\ heap = [o \in Values |-> 0]
    /\ embedding_model = "loaded"
    /\ collection \in {<<>>, IngestedPage}
    /\ memo = <<>>
    /\ max_cache_size = 100
    /\ found = <<>>
    /\ together_key \in BOOLEAN
    /\ openrouter_key \in BOOLEAN
    /\ pending = <<>>
    /\ reply = <<>>
    /\ stored_by = <<>>
    /\ MemoryAtRest
    /\ ScraperAtRest

\* Each key set or empty.
InitChat == InitChatBase /\ blank_keys = {}

\* Each key set, empty, or of whitespace only.
InitKeys ==
    /\ InitChatBase
    /\ blank_keys \in SUBSET {api_name \in {"together", "openrouter"} :
                                ~Configured(api_name)}

NextChat ==
    \/ \E request \in ChatRequests :
            ChatQueryBegin(request.query, request.conversation_id)
    \/ \E i \in 1..MaxPending : ChatQueryEnd(i)
    \/ Tick

\* Both API keys configured: every kind of answer can come about.
InitChatKeyed == InitChat /\ together_key /\ openrouter_key

SpecChat == InitChatKeyed /\ [][NextChat]_vars

\* One request at a time, whatever the providers do.
NextAnswer ==
    \/ ChatQueryBegin(<<"a">>, <<>>)
    \/ \E i \in 1..MaxPending : ChatQueryEnd(i)

SpecAnswer == InitChat /\ [][NextAnswer]_vars

SpecKeys == InitKeys /\ [][NextAnswer]_vars

\* The chat route over a vector store that starts empty and takes pages.
InitSources == InitChatKeyed /\ collection = <<>>

\* The content of the page at a url.
PageContent(url) == [i \in 1..url |-> "d"]

NextSources ==
    \/ \E url \in Urls : AddWebpage(url, PageContent(url))
    \/ ChatQueryBegin(<<"a">>, <<>>)
    \/ \E i \in 1..MaxPending : ChatQueryEnd(i)

SpecSources == InitSources /\ [][NextSources]_vars

\* What a crawl may give a scrape route: lists of records [url, content] of
\* pages, no url twice, none empty.
ScrapedLists ==
    {[i \in DOMAIN order |->
            [url |-> order[i], content |-> PageContent(order[i])]] :
        order \in UNION {Perms(S) : S \in SUBSET Urls \ {{}}}}

\* vectorstore.add_webpage(url=..., content=..., title=..., metadata=...)
\* on the collection c: whatever get_collection, the embedding or
\* collection.add raise is caught and logged in add_webpage, which returns.
AddWebpageTo(c, url, content, adding) ==
    IF adding = "raises" \/ Md5(url) \in DOMAIN c
    THEN c
    ELSE [id \in DOMAIN c \cup {Md5(url)} |->
            IF id = Md5(url)
            THEN [document |-> content,
                  embedding |-> CreateEmbeddings(<<content>>, TRUE)[1],
                  url |-> url]
            ELSE c[id]]

\* for content in scraped_content: try: vectorstore.add_webpage(...);
\* documents_processed += 1; except Exception: errors.append(...).
\* adding: what collection.add comes to for each page; acc: the collection,
\* the counter and the errors so far, and the urls that the store took.
RECURSIVE StoreLoop(_, _, _)
StoreLoop(scraped_content, adding, acc) ==
    IF scraped_content = <<>>
    THEN acc
    ELSE LET content == Head(scraped_content)
         IN  StoreLoop(Tail(scraped_content), Tail(adding),
                [collection |->
                    AddWebpageTo(acc.collection, content.url,
                                 content.content, Head(adding)),
                 documents_processed |-> acc.documents_processed + 1,
                 errors |-> acc.errors,
                 stored |-> IF Head(adding) = "ok"
                            THEN Append(acc.stored, content.url)
                            ELSE acc.stored])

\* The try block of a scrape route after the crawler call, for a call
\* that returned the non-empty list scraped_content: the pages are stored
\* and the ScrapeResponse is returned. stored is not in the response: the
\* urls that the store took.
StoreScrapedContent(url, scraped_content) ==
    /\ Len(responses) < MaxRequests
    /\ \E adding \in [DOMAIN scraped_content -> StoreOutcomes] :
        LET r == StoreLoop(scraped_content, adding,
                    [collection |-> collection, documents_processed |-> 0,
                     errors |-> <<>>, stored |-> <<>>])
            n == Len(scraped_content)
        IN  /\ collection' = r.collection
            /\ found' = [op |-> "add", url |-> scraped_content[n].url,
                         content |-> scraped_content[n].content,
                         failed |-> adding[n] = "raises"]
            /\ responses' = Append(responses,
                    [route |-> "/scrape/", url |-> url, status |-> 200,
                     detail |-> "", pages_scraped |-> n,
                     documents_processed |-> r.documents_processed,
                     errors |-> r.errors, stored |-> r.stored])
    /\ UNCHANGED <<embedding_model, memo, max_cache_size, crawlerVars,
                   cacheVars, chatVars, memoryVars, scraperVars>>

\* The storing part of the scrape routes, over the lists a crawl may give.
NextStore ==
    \E scraped_content \in ScrapedLists :
        StoreScrapedContent(SeedUrl, scraped_content)

SpecStore == InitScrape /\ [][NextStore]_vars

\* One OptimizedScraperService and its callers.
NextScraper ==
    \/ \E pages \in 0..MaxScrapePages : ScraperScrapeWebsite(pages)
    \/ ScraperClearCache

SpecScraper == InitScrape /\ [][NextScraper]_vars

\* One ConversationService and the callers of store_conversation_context.
InitMemory ==
    /\ CrawlerAtRest
    /\ responses = <<>>
    /\ CacheAtRest
    /\ IndexAtRest
    /\ ChatAtRest
    /\ MemoryAtRest
    /\ ScraperAtRest

NextMemory ==
    \E conversation_id \in ConversationIds, query \in ExchangeTexts :
        StoreConversationContext(conversation_id, query, query)

SpecMemory == InitMemory /\ [][NextMemory]_vars

\* Chat requests that run concurrently: two whose cache keys are the same
\* and one with a key of its own.
ConcurrentRequests ==
    {r \in ChatRequests : r.query = <<"a">>}

\* Provider outcomes that give the two kinds of answer: the output of
\* together, and the fallback after both providers failed.
AnswerOutcomes ==
    {<<[kind |-> "ok", content |-> <<"a", "b", "c", "d", "e", "f">>],
       [kind |-> "status", content |-> <<>>]>>,
     <<[kind |-> "exception", content |-> <<>>],
       [kind |-> "timeout", content |-> <<>>]>>}

InitConcurrent == InitChatKeyed /\ collection = <<>>

NextConcurrent ==
    \/ \E request \in ConcurrentRequests :
            ChatQueryBeginUpTo(request.query, request.conversation_id,
                               MaxInFlight)
    \/ \E i \in 1..MaxInFlight, outcomes \in AnswerOutcomes :
            ChatQueryEndWith(i, outcomes)

SpecConcurrent == InitConcurrent /\ [][NextConcurrent]_vars

\* ------------------------------------------------------------- properties

Distinct(s) == \A i, j \in DOMAIN s : i # j => s[i] # s[j]

\* The state right after an invocation started.
JustStarted ==
    /\ pc = "loop"
    /\ results = <<>>
    /\ queue = <<[url |-> start_url, depth |-> 0]>>

\* C1: within one invocation of crawl_with_discovery no URL is requested
\* more than once, and the URLs of the records, collected or returned, are
\* pairwise distinct.
C1_NoUrlFetchedTwice ==
    /\ \A u \in DOMAIN fetch_count : fetch_count[u] <= 1
    /\ Distinct(results)
    /\ \A i \in DOMAIN returned : Distinct(returned[i].urls)

\* C2: the list an invocation returns has at most max_pages records.
C2_AtMostMaxPages ==
    \A i \in DOMAIN returned :
        ~returned[i].raised => Len(returned[i].urls) <= max_pages

\* C3: every URL is fetched from a frontier entry of depth <= max_depth,
\* an invocation starts with the frontier holding the seed at depth 0, and
\* the seed is never in the frontier or fetched at another depth.
C3_DepthBound ==
    /\ \A i \in DOMAIN wave :
        /\ wave[i].depth <= max_depth
        /\ wave[i].url = start_url => wave[i].depth = 0
    /\ \A i \in DOMAIN queue :
        queue[i].url = start_url => queue[i].depth = 0
    /\ (pc = "loop" /\ ok_count = 0 /\ failed_urls = {})
            => queue = <<[url |-> start_url, depth |-> 0]>>

\* C3's case: with max_depth = 0 the seed was fetched, it had links, and
\* none of them was fetched.
C3_Witness ==
    /\ max_depth = 0
    /\ Len(returned) >= 1
    /\ returned[1].start = SeedUrl
    /\ returned[1].urls = <<SeedUrl>>
    /\ SeedUrl \in DOMAIN site
    /\ site[SeedUrl] # {}

\* C4: every URL in the frontier, in a wave, in the records and in the
\* returned lists has the host of the seed of its invocation.
C4_SameHostAsSeed ==
    /\ \A i \in DOMAIN queue : Netloc(queue[i].url) = Netloc(start_url)
    /\ \A i \in DOMAIN wave : Netloc(wave[i].url) = Netloc(start_url)
    /\ \A i \in DOMAIN results : Netloc(results[i]) = Netloc(start_url)
    /\ \A i \in DOMAIN returned :
        \A j \in DOMAIN returned[i].urls :
            Netloc(returned[i].urls[j]) = Netloc(returned[i].start)

\* C4's case: an invocation returned several pages, each of which carries
\* a link to another host.
C4_Witness ==
    \E i \in DOMAIN returned :
        /\ Len(returned[i].urls) >= 3
        /\ \A j \in DOMAIN returned[i].urls :
            CrossUrl \in Hrefs(returned[i].urls[j], site[returned[i].urls[j]])

\* C5: every invocation of crawl_with_discovery ends by returning its
\* result list.
C5_AlwaysReturns ==
    \A i \in DOMAIN returned : ~returned[i].raised

\* C6: a failed fetch gives no record and does not end the crawl: the
\* records are exactly the successful fetches, also while the crawl runs,
\* and an invocation in which a fetch failed returns normally.
C6_FailureDoesNotAbort ==
    /\ pc = "loop" => Len(results) = ok_count
    /\ pc = "gather" =>
            Len(results) + Cardinality({i \in DOMAIN wave : wave[i].st = "ok"})
                = ok_count
    /\ \A i \in DOMAIN returned :
        returned[i].failed =>
            /\ ~returned[i].raised
            /\ Len(returned[i].urls) = returned[i].ok

\* C6's case: an invocation in which a fetch failed went on and returned
\* the records of three successful fetches.
C6_Witness ==
    \E i \in DOMAIN returned :
        /\ returned[i].failed
        /\ ~returned[i].raised
        /\ Len(returned[i].urls) >= 3

\* The site of the scenario, as far as it has been served: the seed links
\* to pages 2 and 3 (and to another host), pages 2 and 3 link to nothing
\* outside the three pages, and there is no other page.
ThreePageSite ==
    /\ DOMAIN site \subseteq {1, 2, 3}
    /\ 1 \in DOMAIN site => site[1] = {2, 3}
    /\ 2 \in DOMAIN site => site[2] \subseteq {1, 3}
    /\ 3 \in DOMAIN site => site[3] \subseteq {1, 2}

\* C7: on the three-page site with max_depth = 1 and max_pages = 10, all
\* fetches succeeding, a first crawl from the seed returns exactly the
\* three pages, each once.
C7_ThreePageScenario ==
    (/\ Len(returned) >= 1
     /\ returned[1].start = SeedUrl
     /\ ~returned[1].failed
     /\ max_depth = 1
     /\ max_pages = 10
     /\ ThreePageSite)
    => /\ ~returned[1].raised
       /\ Len(returned[1].urls) = 3
       /\ Range(returned[1].urls) = {1, 2, 3}

\* C8: every invocation starts with an empty visited set, and two
\* successive crawls of the same seed, no fetch failing, return the same
\* set of URLs.
C8_FreshVisitedSet ==
    /\ JustStarted => visited_urls = {}
    /\ (/\ Len(returned) = 2
        /\ returned[1].start = returned[2].start
        /\ \A i \in {1, 2} : ~returned[i].failed /\ ~returned[i].raised)
       => Range(returned[1].urls) = Range(returned[2].urls)

\* C9: a scrape request for a URL whose crawl yields no page is answered
\* 400 "No content found to scrape", not the generic 500 and not 200.
C9_NoContentIs400 ==
    \A i \in DOMAIN responses :
        CrawlYieldsNothing(responses[i].url) =>
            /\ responses[i].status = 400
            /\ responses[i].detail = NoContentDetail

\* C10: the cache never holds more than max_size entries.
C10_SizeBound == Len(cache) <= max_size

\* C10's case: a set on a full cache evicted an entry and left the cache
\* full again.
C10_Witness ==
    /\ evicted # <<>>
    /\ Len(cache) = max_size
    /\ max_size >= 2

\* C11: when set evicts an entry for capacity, the entry it removes has the
\* least timestamp among the entries left after the expired ones were
\* removed, so no older entry is kept while a newer one goes.
C11_EvictsOldest ==
    [][((\E k \in Keys, v \in Values : CacheSet(k, v)) /\ evicted' # <<>>) =>
        LET live == CleanupExpired(cache, now)
        IN  \E i \in 1..Len(live) :
                /\ \A j \in 1..Len(live) :
                        live[i].timestamp <= live[j].timestamp
                /\ evicted' = <<live[i].timestamp>>
                /\ \E k \in Keys, v \in Values, t \in LaterTimes :
                        /\ now' = t
                        /\ cache' = Store(Remove(live, i), k, v, t)]_vars

\* C11's case: a set evicted an entry although a newer one was there, which
\* it kept.
C11_Witness ==
    /\ evicted # <<>>
    /\ Len(cache) = 2
    /\ max_size = 2
    /\ cache[1].timestamp > evicted[1]

\* C12 as stated: set(k, v) leaves k holding v stamped with the time of
\* the call; a get(k) of an entry on which less than ttl has elapsed returns
\* its value, and a get(k) of an entry on which ttl or more has elapsed
\* since its set returns None.
C12_SetGetTtl ==
    [][\A k \in Keys :
        /\ \A v \in Values :
                CacheSet(k, v) =>
                    /\ HasKey(cache', k)
                    /\ Lookup(cache', k).data = v
                    /\ Lookup(cache', k).timestamp = now'
        /\ (CacheGet(k) /\ HasKey(cache, k)) =>
                IF now' - Lookup(cache, k).timestamp >= ttl
                THEN ret' = <<>>
                ELSE ret' = <<Lookup(cache, k).data>>]_vars

\* C12, amended: the same, with None returned only for an entry on which
\* more than ttl has elapsed; an entry of age exactly ttl is still served.
C12_SetGetOlderThanTtl ==
    [][\A k \in Keys :
        /\ \A v \in Values :
                CacheSet(k, v) =>
                    /\ HasKey(cache', k)
                    /\ Lookup(cache', k).data = v
                    /\ Lookup(cache', k).timestamp = now'
        /\ (CacheGet(k) /\ HasKey(cache, k)) =>
                IF now' - Lookup(cache, k).timestamp > ttl
                THEN ret' = <<>>
                ELSE ret' = <<Lookup(cache, k).data>>]_vars

\* C12's case: a get has just returned the value of the only entry, on
\* which exactly ttl has elapsed.
C12_Witness ==
    /\ ret # <<>>
    /\ Len(cache) = 1
    /\ ret[1] = cache[1].data
    /\ now - cache[1].timestamp = ttl

\* C13: no entry is shared by reference: when a caller changes an object
\* that it passed to set or was given by get, what get(k) has to return
\* stays the same for every key k.
C13_NoSharedReference ==
    [][\A o \in Values :
        Mutate(o) =>
            \A k \in Keys :
                HasKey(cache, k) =>
                    heap'[Lookup(cache', k).data] = heap[Lookup(cache, k).data]]_vars

\* C14: similarity_search(query, k) returns at most k results, ordered by
\* non-increasing score, whatever searches and ingests came before.
C14_AtMostKSorted ==
    (found # <<>> /\ found.op = "search") =>
        /\ Len(found.results) <= found.k
        /\ \A i, j \in DOMAIN found.results :
            i <= j => found.results[i].score >= found.results[j].score

\* C15: after add_webpage(url, c1) and then add_webpage(url, c2), neither
\* of them failing in the store, the collection holds under md5(url) one
\* record, whose document is c2: after every add that did not fail the
\* record of the URL holds the content just given.
C15_LastWriteWins ==
    (found # <<>> /\ found.op = "add" /\ ~found.failed) =>
        /\ Md5(found.url) \in DOMAIN collection
        /\ collection[Md5(found.url)].document = found.content

\* C16: no failure of the embedding step or of the store leaves the
\* vector store: a search in which the store or the embedding step failed
\* returns the empty list, and create_embeddings, when the model is missing
\* or encode fails, returns one zero vector of 384 elements per input.
C16_FailuresAbsorbed ==
    /\ (found # <<>> /\ found.op = "search" /\ (found.failed \/ found.zeroed))
            => found.results = <<>>
    /\ (found # <<>> /\ found.op = "embed"
            /\ (embedding_model = "none" \/ ~found.encodes))
            => /\ Len(found.vectors) = Len(found.texts)
               /\ \A i \in DOMAIN found.vectors :
                    /\ Len(found.vectors[i]) = 384
                    /\ \A j \in 1..384 : found.vectors[i][j] = 0

\* C17: a search answered from the memo does not query the vector store,
\* and no memoized result is served once the window, the ttl of the cache,
\* has elapsed since it was memoized.
C17_MemoWindow ==
    (found # <<>> /\ found.op = "search" /\ found.hit) =>
        /\ ~found.queried
        /\ found.age <= ttl

\* The request of a response or of a waiting call.
RequestOf(x) == [query |-> x.query, conversation_id |-> x.conversation_id]

\* C18: while the response that a request stored is still in the cache,
\* neither expired nor evicted, a chat_query with the same query and
\* conversation id does not go on to similarity_search and the LLM service
\* but returns that very response, leaving the memo of the vector store as
\* it is; and every chat_query that builds a response has stored it in the
\* cache under its key when it returns, also when it is a fallback.
C18_SecondCallServedFromCache ==
    [][/\ \A r \in ChatRequests :
            LET cache_key == ChatCacheKey(r.query, r.conversation_id)
                live == CleanupExpired(cache, now)
            IN  (/\ HasKey(live, cache_key)
                 /\ now' - Lookup(live, cache_key).timestamp <= ttl
                 /\ stored_by[cache_key] = r)
                => /\ Len(pending') > Len(pending) =>
                        RequestOf(pending'[Len(pending')]) # r
                   /\ (reply' # <<>> /\ reply'.cached /\ RequestOf(reply') = r) =>
                        /\ reply'.status = 200
                        /\ reply'.body = Lookup(cache, cache_key).data
                        /\ UNCHANGED <<memo, found, pending>>
       /\ (reply' # <<>> /\ ~reply'.cached /\ reply'.status = 200) =>
            LET cache_key == ChatCacheKey(reply'.query, reply'.conversation_id)
            IN  /\ HasKey(cache', cache_key)
                /\ Lookup(cache', cache_key).data = reply'.body]_vars

\* C18's case: a request was served from the cache the fallback response
\* that a request with the same query and conversation id had stored.
C18_Witness ==
    /\ reply # <<>>
    /\ reply.cached
    /\ reply.by = [query |-> reply.query,
                   conversation_id |-> reply.conversation_id]
    /\ reply.body.response.kind = "fallback_generic"

\* C19: a cached response is served only to a request whose query and
\* conversation id are those of the request that stored it.
C19_ServedToSamePair ==
    (reply # <<>> /\ reply.cached) =>
        reply.by = [query |-> reply.query,
                    conversation_id |-> reply.conversation_id]

\* What the claim counts as a provider failing: an exception, a timeout, a
\* status other than 200, or an output of 5 characters or fewer once
\* stripped.
Failing(outcome) ==
    \/ outcome.kind \in {"exception", "timeout", "status"}
    \/ Len(Strip(outcome.content)) <= 5

\* C20: chat_query answers 200 whatever the providers do, and when the
\* call of every provider fails or yields too short an output the answer
\* is the fallback template: the one about the context when the retrieved
\* context is not empty, the generic one when it is.
C20_FallbackNotError ==
    [][\A i \in 1..MaxPending :
        \A outcomes \in ProviderOutcomes \X ProviderOutcomes :
            ChatQueryEndWith(i, outcomes) =>
                /\ reply'.status = 200
                /\ (Failing(outcomes[1]) /\ Failing(outcomes[2])) =>
                    reply'.body.response =
                        [kind |-> IF pending[i].context # <<>>
                                  THEN "fallback_context"
                                  ELSE "fallback_generic",
                         text |-> pending[i].query]]_vars

\* C20's case: both providers were configured and called, neither gave a
\* usable output, and the request got the template about the context of
\* one retrieved page.
C20_Witness ==
    /\ reply # <<>>
    /\ ~reply.cached
    /\ together_key
    /\ openrouter_key
    /\ reply.status = 200
    /\ reply.body.response.kind = "fallback_context"
    /\ Len(reply.body.sources) = 1

\* C21: one generate_response calls the providers in the order together,
\* openrouter, each at most once; openrouter only when together failed or
\* gave no usable output; the first usable output is the answer and no
\* later provider is called; the fallback template is the answer only
\* after every provider was called, or when no key is configured.
C21_FixedOrderOnce ==
    [][\A i \in 1..MaxPending :
        \A outcomes \in ProviderOutcomes \X ProviderOutcomes :
            ChatQueryEndWith(i, outcomes) =>
                LET tried == reply'.tried
                    answer == reply'.body.response
                    fails1 == ~together_key \/ Failing(outcomes[1])
                    fails2 == ~openrouter_key \/ Failing(outcomes[2])
                IN  /\ tried \in {<<>>, <<"together">>,
                                  <<"together", "openrouter">>}
                    /\ Len(tried) = 2 => fails1
                    /\ ~fails1 =>
                        /\ tried = <<"together">>
                        /\ answer = [kind |-> "llm",
                                     text |-> Strip(outcomes[1].content)]
                    /\ (fails1 /\ ~fails2) =>
                        /\ tried = <<"together", "openrouter">>
                        /\ answer = [kind |-> "llm",
                                     text |-> Strip(outcomes[2].content)]
                    /\ answer.kind # "llm" =>
                        \/ tried = <<"together", "openrouter">>
                        \/ tried = <<>> /\ ~together_key /\ ~openrouter_key]_vars

\* C21's case: together was called and gave no usable output, then
\* openrouter was called and its output became the answer.
C21_Witness ==
    /\ reply # <<>>
    /\ ~reply.cached
    /\ reply.tried = <<"together", "openrouter">>
    /\ reply.body.response.kind = "llm"

\* Whether the text of an answer is empty: the templates have a text of
\* their own around the query; the output of a provider is what it is.
EmptyAnswer(answer) == answer.kind = "llm" /\ answer.text = <<>>

\* C22: over an empty collection similarity_search finds nothing, and a
\* chat_query whose search found nothing builds the prompt of the generic
\* persona and answers 200 with a response that is not empty and with no
\* sources, whether the answer is the output of a provider or the fallback.
C22_EmptyIndexGeneric ==
    [][/\ (collection = <<>> /\ Len(pending') > Len(pending)) =>
            pending'[Len(pending')].context = <<>>
       /\ \A i \in 1..MaxPending :
            \A outcomes \in ProviderOutcomes \X ProviderOutcomes :
                (ChatQueryEndWith(i, outcomes) /\ pending[i].context = <<>>) =>
                    /\ reply'.prompt = [persona |-> "generic",
                                        query |-> pending[i].query,
                                        parts |-> <<>>]
                    /\ reply'.status = 200
                    /\ ~EmptyAnswer(reply'.body.response)
                    /\ reply'.body.sources = <<>>]_vars

\* C22's case: the collection is empty and a provider answered the prompt
\* of the generic persona.
C22_Witness ==
    /\ collection = <<>>
    /\ reply # <<>>
    /\ ~reply.cached
    /\ reply.prompt.persona = "generic"
    /\ reply.body.response.kind = "llm"
    /\ reply.body.sources = <<>>

\* C23: the sources of a response that chat_query built are the urls of
\* the context entries that went into the prompt, no more and no fewer,
\* each url once.
C23_SourcesOfContext ==
    (reply # <<>> /\ ~reply.cached /\ reply.status = 200) =>
        /\ Range(reply.body.sources) =
                {reply.prompt.parts[j].url : j \in DOMAIN reply.prompt.parts}
        /\ Distinct(reply.body.sources)

\* C23's case: two pages were retrieved and went into the prompt.
C23_Witness ==
    /\ reply # <<>>
    /\ ~reply.cached
    /\ Len(reply.prompt.parts) = 2
    /\ Len(reply.body.sources) = 2

\* What a conversation holds is the end of what was stored into it, in
\* the order of storing, and at most 5 exchanges.
MemoryWindow ==
    /\ DOMAIN conversation_memory = DOMAIN exchanges
    /\ \A c \in DOMAIN conversation_memory :
        LET kept == conversation_memory[c]
            stored == exchanges[c]
        IN  /\ Len(kept) <= 5
            /\ Len(kept) = Min(5, Len(stored))
            /\ \A i \in 1..Len(kept) :
                kept[i] = stored[Len(stored) - Len(kept) + i]

\* C24: after every store_conversation_context each conversation holds at
\* most 5 exchanges, the most recently stored ones of that conversation in
\* the order they were stored, and a store into one conversation leaves
\* the exchanges of every other conversation as they were.
C24_LastFiveExchanges ==
    [][/\ MemoryWindow'
       /\ \A c \in DOMAIN conversation_memory :
            exchanges'[c] = exchanges[c] =>
                conversation_memory'[c] = conversation_memory[c]]_vars

\* C24's case: one conversation took more stores than it keeps, of
\* differing exchanges, while another one holds exchanges too.
C24_Witness ==
    /\ DOMAIN exchanges = ConversationIds
    /\ Len(exchanges[1]) = 6
    /\ exchanges[1][1] # exchanges[1][6]
    /\ Len(conversation_memory[1]) = 5
    /\ Len(conversation_memory[2]) = 2

\* C25: however concurrent chat_query calls interleave at the await, the
\* call that writes leaves under its key its own complete response,
\* whatever was there before, and leaves the entries of the other keys as
\* they were, but for those it removes as expired or for capacity; so each
\* entry of the cache is the response of the request that wrote it last.
C25_CacheNotCorrupted ==
    [][/\ (reply' # <<>> /\ ~reply'.cached /\ reply'.status = 200) =>
            LET cache_key == ChatCacheKey(reply'.query, reply'.conversation_id)
            IN  /\ HasKey(cache', cache_key)
                /\ Lookup(cache', cache_key).data = reply'.body
                /\ \A i \in DOMAIN cache' :
                    cache'[i].key # cache_key =>
                        \E j \in DOMAIN cache : cache[j] = cache'[i]
       /\ \A i \in DOMAIN cache' :
            /\ cache'[i].key \in DOMAIN stored_by'
            /\ cache'[i].data.conversation_id =
                ConversationIdOrDefault(
                    stored_by'[cache'[i].key].conversation_id)
            /\ cache'[i].key =
                ChatCacheKey(stored_by'[cache'[i].key].query,
                             stored_by'[cache'[i].key].conversation_id)
            /\ \A j \in DOMAIN cache' : i # j => cache'[i].key # cache'[j].key]_vars

\* C25's case: two requests with the same cache key waited at the await
\* together, one returned and stored its response, and then the other
\* returned and replaced it.
C25_Witness ==
    /\ reply # <<>>
    /\ ~reply.cached
    /\ reply.status = 200
    /\ reply.replaced # <<>>
    /\ reply.replaced[1] # RequestOf(reply)

\* C26: an invocation of crawl_with_discovery that returns has collected
\* max_pages records or leaves a frontier with no entry that is unvisited
\* and of depth <= max_depth.
C26_NoEarlyReturn ==
    (pc = "idle" /\ returned # <<>> /\ ~returned[Len(returned)].raised) =>
        \/ Len(results) >= max_pages
        \/ \A i \in DOMAIN queue :
            ~(queue[i].depth <= max_depth /\ queue[i].url \notin visited_urls)

\* C27: while a crawl runs the frontier holds no URL twice and no entry
\* of a depth over max_depth, and what a step appends to the frontier is
\* not visited at that moment.
C27_FrontierEntries ==
    [][pc' # "idle" =>
        /\ \A i, j \in DOMAIN queue' :
            i # j => queue'[i].url # queue'[j].url
        /\ \A i \in DOMAIN queue' : queue'[i].depth <= max_depth
        /\ (pc = "gather" /\ pc' = "loop") =>
            \A i \in (Len(queue) + 1)..Len(queue') :
                queue'[i].url \notin visited_urls]_vars

\* The URLs that at most d links lead to from the seed, by the links of
\* the pages fetched so far.
RECURSIVE Within(_)
Within(d) ==
    IF d = 0 THEN {start_url}
    ELSE Within(d - 1) \cup
         UNION {PageLinks(u) : u \in Within(d - 1) \cap DOMAIN site}

\* C28: the links of a page fetched at depth d enter the frontier at depth
\* d + 1, so that every page fetched in a crawl is at most max_depth links
\* from the seed.
C28_DepthGrowsWithLinks ==
    pc # "idle" =>
        /\ Range(results) \subseteq Within(max_depth)
        /\ \A i \in DOMAIN wave :
            wave[i].st = "ok" => wave[i].url \in Within(max_depth)

\* C29: once a fetch of a URL has failed in a crawl, the URL does not
\* enter the frontier again and no further request is sent for it in
\* that crawl.
C29_FailedNotRetried ==
    [][(pc # "idle" /\ pc' # "idle") =>
        \A u \in failed_urls :
            /\ Cardinality({i \in DOMAIN queue' : queue'[i].url = u})
                    <= Cardinality({i \in DOMAIN queue : queue[i].url = u})
            /\ fetch_count'[u] = fetch_count[u]]_vars

\* C30: while an invocation waits at an await, the invocation that runs
\* changes neither the visited set nor the session the waiting one works
\* with.
C30_ConcurrentCrawlsApart ==
    suspended # <<>> =>
        /\ visited_urls = suspended[1].visited_urls
        /\ session = suspended[1].session

\* C31: processing a wave appends at most 5 links per page fetched in it,
\* so that the frontier never holds more than 1 + 5 x (successful
\* fetches so far) entries.
C31_FanoutBound ==
    [][/\ (pc = "gather" /\ pc' = "loop") =>
            Len(queue') - Len(queue) <=
                5 * Cardinality({i \in DOMAIN wave : wave[i].st = "ok"})
       /\ pc' # "idle" => Len(queue') <= 1 + 5 * ok_count']_vars

\* C31's case: the seed page has more than 5 unvisited links of its host
\* and exactly 5 of them are in the frontier.
C31_Witness ==
    /\ pc = "loop"
    /\ results = <<SeedUrl>>
    /\ Cardinality(PageLinks(SeedUrl) \ visited_urls) > 5
    /\ Len(queue) = 5

\* C32: a set on a key that is in the cache and not expired leaves every
\* other entry that is not expired in the cache, with the value it had,
\* also when the cache holds max_size entries.
C32_OverwriteKeepsOthers ==
    [][\A k \in Keys, v \in Values :
        (CacheSet(k, v) /\ HasKey(CleanupExpired(cache, now), k)) =>
            \A i \in DOMAIN cache :
                (cache[i].key # k /\ now' - cache[i].timestamp <= ttl) =>
                    /\ HasKey(cache', cache[i].key)
                    /\ Lookup(cache', cache[i].key).data = cache[i].data]_vars

\* C33: get and get_stats leave every entry they keep as it was, key,
\* value and timestamp, in the order of the dict, and the entries they
\* remove are older than the TTL; so the entry a set evicts is chosen by
\* the times of the sets alone.
C33_ReadsChangeNothing ==
    [][((\E k \in Keys : CacheGet(k)) \/ CacheGetStats) =>
        /\ \E kept \in SUBSET DOMAIN cache :
            /\ Len(cache') = Cardinality(kept)
            /\ \A i \in kept :
                cache'[Cardinality({j \in kept : j <= i})] = cache[i]
            /\ \A i \in DOMAIN cache \ kept :
                now' - cache[i].timestamp > ttl
        /\ evicted' = <<>>]_vars

\* C33's case: a get has just returned the value of the oldest entry of a
\* full cache, and that entry still is the one the next set evicts.
C33_Witness ==
    /\ ret # <<>>
    /\ max_size = 2
    /\ Len(cache) = 2
    /\ cache[1].data = ret[1]
    /\ cache[2].data # ret[1]
    /\ cache[1].timestamp < cache[2].timestamp
    /\ OldestIndex(cache) = 1

\* C34: a search answered from the memo gives a result that the collection
\* as it is now gives for the query: nothing memoized before the last
\* ingest that succeeded is returned.
C34_MemoReflectsCollection ==
    (found # <<>> /\ found.op = "search" /\ found.hit) =>
        \E encodes \in BOOLEAN :
            LET e == CreateEmbeddings(<<found.query>>, encodes)[1]
            IN  \E r \in Nearest(e, found.k) :
                    FormattedResults(r, e) = found.results

\* C35: after a search the memo has at most max_cache_size entries (100);
\* the insertion that makes it one more cuts it to the MemoKeep entries (50)
\* inserted last, the last of them the result just computed; a search that
\* failed with an exception leaves the memo as it was.
C35_MemoBounded ==
    [][\A query \in CutQueries :
        SimilaritySearch(query, MaxK) =>
            LET e == [key |-> Md5(query), results |-> found'.results,
                      at |-> now]
                m == Append(memo, e)
            IN  /\ Len(memo') <= max_cache_size
                /\ found'.failed => memo' = memo
                /\ (found'.queried /\ ~found'.failed
                        /\ Len(memo) = max_cache_size) =>
                            /\ Len(memo') = MemoKeep
                            /\ memo' = SubSeq(m, Len(m) - MemoKeep + 1, Len(m))
                            /\ memo'[MemoKeep] = e]_vars

\* C35's case: a search on a full memo has computed a result, and the memo
\* was cut to the entries inserted last, the new one among them.
C35_Witness ==
    /\ found # <<>>
    /\ found.op = "search"
    /\ found.size = max_cache_size
    /\ found.queried
    /\ ~found.failed
    /\ Len(memo) = MemoKeep
    /\ memo[MemoKeep].key = Md5(found.query)
    /\ memo[MemoKeep].results = found.results

\* C36: when no 'async with' block on the crawler is entered any more, no
\* session that __aenter__ opened is open: not the one self.session holds,
\* and none that a later __aenter__ replaced.
C36_SessionsClosed ==
    (pc = "idle" /\ ~outer /\ suspended = <<>>) =>
        /\ session # "open"
        /\ lost = 0

\* C37: generate_response sends a request only to a provider whose key is
\* configured, that is, not empty once stripped; with one key configured
\* only that provider is contacted.
C37_OnlyConfiguredContacted ==
    (reply # <<>> /\ ~reply.cached) =>
        \A i \in DOMAIN reply.tried :
            HasKeyFor(reply.tried[i]) => Configured(reply.tried[i])

\* C38: in the response of a scrape route documents_processed is the
\* number of pages that the vector store took, and there is an entry of
\* errors for every page that it did not take.
C38_ProcessedAreStored ==
    \A i \in DOMAIN responses :
        "documents_processed" \in DOMAIN responses[i] =>
            /\ responses[i].documents_processed = Len(responses[i].stored)
            /\ Len(responses[i].errors) =
                    responses[i].pages_scraped - Len(responses[i].stored)

\* C39: scraped_urls is the set of the urls fetched with success since the
\* last clear_cache; a scrape_website call sends a GET to the urls of its
\* slice that are not in the set, to each once and to no other, so a failed
\* url is fetched again by the next call; it returns records of urls it
\* fetched with success only, at most max_pages of them; a failed url is
\* not in the set.
C39_ScrapedOnce ==
    /\ scraped_urls = fetched_ok
    /\ scrape # <<>> =>
        /\ scrape.fetched =
                SelectSeq(Take(ScraperUrls, scrape.max_pages),
                          LAMBDA url : url \notin scrape.before)
        /\ Range(scrape.results) \subseteq Range(scrape.fetched) \ scrape.failed
        /\ Len(scrape.results) <= scrape.max_pages
        /\ \A i, j \in DOMAIN scrape.results :
                i # j => scrape.results[i] # scrape.results[j]
        /\ scrape.failed \cap scraped_urls = {}

\* C39's case: a call found urls already scraped and skipped them, fetched
\* the others, one of them failed and one gave a record.
C39_Witness ==
    /\ scrape # <<>>
    /\ scrape.before \cap Range(Take(ScraperUrls, scrape.max_pages)) # {}
    /\ scrape.failed # {}
    /\ scrape.results # <<>>
    /\ scraped_urls # scrape.before

====
